---------------------------- MODULE Spec2Model ----------------------------
(***************************************************************************)
(* Model of the job dispatch, retry and device-health engine of            *)
(* src/async_client.py (class AsyncClient).                                *)
(*                                                                         *)
(* Threads of control that the model distinguishes:                        *)
(*   - the asyncio event loop thread, which runs main_loop, the            *)
(*     process_printer_jobs coroutine of every printer and the             *)
(*     process_retry_queue coroutine; a coroutine runs without             *)
(*     interruption from one await to the next, so every action of the     *)
(*     loop thread is one such synchronous segment;                        *)
(*   - the threads of print_executor, which run print_job_sync and         *)
(*     test_printer_with_keep_alive.                                       *)
(*                                                                         *)
(* Abstractions: a job is its id (the payload is opaque to the engine),    *)
(* and an item of a job list that is not a dict is NotADict;               *)
(* datetime.now() is the integer clock `now` in seconds; the write-only    *)
(* fields of PrinterStatus (latency, per-printer totals,                   *)
(* last_successful_connection) and stats['last_activity'] are left out, as *)
(* are logging and the rendering of a job.  The periodic export, heartbeat *)
(* and summary of main_loop change no state of the client besides the      *)
(* loop's counters and nothing in their code raises; the exception that    *)
(* `except Exception` of main_loop provides for is an input of the cycle   *)
(* (`raises`), placed at the call of export_status.                        *)
(*                                                                         *)
(* The client starts as __init__ leaves it; load_config is an action       *)
(* (LoadConfig) that builds the printers and counts the invalid entries of *)
(* the file.  The clock and the shutdown signal may move between any two   *)
(* steps, before load_config included, and the signal also inside a step,  *)
(* between the kill_now test of a task loop and the run_in_executor call   *)
(* behind it, and between two entries process_retry_queue skips.  A cycle  *)
(* of main_loop is one step per segment of the event                       *)
(* loop: the loop test, the first run of perform_keep_alive, each probe    *)
(* result (the segment that ends the keep-alive check, or finds none due,  *)
(* goes on through the counters and the periodic calls to the creation of  *)
(* the cycle's tasks), the first run of each task in creation order, and   *)
(* each reply.  A call of print_job_sync is a start step (PrintJobSync),   *)
(* which draws the outcome of the last attempt (the attempts before it     *)
(* change no state of the client), followed by one step of its worker      *)
(* thread per read, test or write of shared data (WorkerStep); the threads *)
(* of the pool interleave between such steps.                              *)
(* job_history is a history variable: no action reads it.                  *)
(***************************************************************************)
EXTENDS Integers, Sequences, FiniteSets, TLC

----------------------------------------------------------------------------
(* Bounds of the model *)

\* self.max_failed_jobs (50 in the source, line 197), scaled down so that a
\* full queue is reachable.
max_failed_jobs == 2

\* Job ids the job source knows are 1..NumJobs: always one more than the
\* queue can hold, so that an enqueue at capacity happens.
NumJobs == max_failed_jobs + 1

\* Longest job list one fetch returns.
MaxBatch == 2

----------------------------------------------------------------------------
(* Program constants *)

\* self.retry_intervals
retry_intervals == <<30, 60, 120, 300, 600>>

\* `if failed_job.attempts >= 5` in process_retry_queue
GiveUpCeiling == 5

\* max_attempts in print_job_sync
max_attempts == 3

\* `status.consecutive_failures >= 3` in update_printer_status
UnhealthyThreshold == 3

\* self.keep_alive_interval: period of the global keep-alive check
keep_alive_interval == 60

\* PrinterConfig.keep_alive_interval: per-printer idle threshold
printer_keep_alive_interval == 300

\* The tokens a configuration file may name.
Tokens == {"p1", "p2"}

JobIds == 1..NumJobs


----------------------------------------------------------------------------
VARIABLES
    printers,             \* self.printers: the active tokens, in dict order
    now,                  \* datetime.now(), in seconds since construction
    kill_now,             \* GracefulKiller.kill_now
    running,              \* self.running
    printer_status,       \* self.printer_status: token -> PrinterStatus
    failed_jobs,          \* self.failed_jobs, in the dict's insertion order
    stats,                \* self.stats (the counters)
    last_keep_alive_check,\* self.last_keep_alive_check
    main,                 \* main_loop(): its position and locals
    fetch,                \* process_printer_jobs(token): position and locals
    retry,                \* process_retry_queue(): position and locals
    task,                 \* print_executor: the call each coroutine submitted
    health_writer,        \* the thread that wrote a PrinterStatus last
    log_level,            \* self.log_level
    job_history,          \* history: failures each job id has on record
    outcomes,             \* harness: outcomes recorded per printer, in order
    last_call,            \* harness: the last retry-queue call made
    worker,               \* the worker threads inside the end of print_job_sync
    cadence               \* main_loop: its cycle counters and what the last cycle called

vars == <<printers, now, kill_now, running, printer_status, failed_jobs, stats,
          last_keep_alive_check, main, fetch, retry, task, health_writer,
          log_level, job_history, outcomes, last_call, worker, cadence>>

\* The keys of self.printers.
Printers == {printers[i] : i \in 1..Len(printers)}

\* The job source serves a job to one printer only: job ids are dealt to the
\* printers in turn.
PrinterOf(j) == printers[((j - 1) % Len(printers)) + 1]

----------------------------------------------------------------------------
(* PrinterStatus and update_printer_status *)

\* PrinterStatus(name, ip, token) as load_config builds it; the three
\* timestamps default to datetime.now().
NewPrinterStatus(t) ==
    [consecutive_failures |-> 0,
     is_healthy           |-> TRUE,
     last_error           |-> "",
     last_keep_alive      |-> t,
     last_job_printed     |-> t]

\* self.stats as __init__ builds it (the counters).
NewStats ==
    [jobs_processed       |-> 0,
     jobs_failed          |-> 0,
     jobs_retried         |-> 0,
     keep_alives_sent     |-> 0,
     keep_alives_failed   |-> 0,
     connections_restored |-> 0,
     total_errors         |-> 0]

\* self.logger.isEnabledFor(logging.INFO)
InfoEnabled == log_level \in {"DEBUG", "INFO"}

\* update_printer_status with the streak compared by `>` instead of `>=`.
StatusAfterUpdate_StrictThreshold(ps, token, success, error_msg) ==
    IF token \notin DOMAIN ps THEN ps
    ELSE LET status == ps[token] IN
         IF success
         THEN [ps EXCEPT ![token] =
                  [status EXCEPT !.consecutive_failures = 0,
                                 !.is_healthy = TRUE,
                                 !.last_error = ""]]
         ELSE LET n == status.consecutive_failures + 1 IN
              [ps EXCEPT ![token] =
                  [status EXCEPT !.consecutive_failures = n,
                                 !.last_error = error_msg,
                                 !.is_healthy =
                                     IF n > UnhealthyThreshold /\ status.is_healthy
                                     THEN FALSE ELSE status.is_healthy]]

\* The PrinterStatus that update_printer_status leaves for `token`; a token
\* without a record is rejected and nothing changes.
StatusAfterUpdate(ps, token, success, error_msg) ==
    IF token \notin DOMAIN ps THEN ps
    ELSE LET status == ps[token] IN
         IF success
         THEN [ps EXCEPT ![token] =
                  [status EXCEPT !.consecutive_failures = 0,
                                 !.is_healthy = TRUE,
                                 !.last_error = ""]]
         ELSE LET n == status.consecutive_failures + 1 IN
              [ps EXCEPT ![token] =
                  [status EXCEPT !.consecutive_failures = n,
                                 !.last_error = error_msg,
                                 !.is_healthy =
                                     IF n >= UnhealthyThreshold /\ status.is_healthy
                                     THEN FALSE ELSE status.is_healthy]]

\* A call that counts an unknown token as an error.
StatsAfterUpdate_CountsUnknown(st, ps, token, success) ==
    IF token \notin DOMAIN ps THEN [st EXCEPT !.total_errors = @ + 1]
    ELSE LET status == ps[token] IN
         IF success
         THEN IF status.consecutive_failures > 0 /\ InfoEnabled
              THEN [st EXCEPT !.connections_restored = @ + 1]
              ELSE st
         ELSE IF status.consecutive_failures + 1 >= UnhealthyThreshold
                 /\ status.is_healthy
              THEN [st EXCEPT !.total_errors = @ + 1]
              ELSE st

\* self.stats after the same call.
StatsAfterUpdate(st, ps, token, success) ==
    IF token \notin DOMAIN ps THEN st
    ELSE LET status == ps[token] IN
         IF success
         THEN IF status.consecutive_failures > 0 /\ InfoEnabled
              THEN [st EXCEPT !.connections_restored = @ + 1]
              ELSE st
         ELSE IF status.consecutive_failures + 1 >= UnhealthyThreshold
                 /\ status.is_healthy
              THEN [st EXCEPT !.total_errors = @ + 1]
              ELSE st

----------------------------------------------------------------------------
(* FailedJob and the retry queue *)

Min(a, b) == IF a < b THEN a ELSE b

\* seq[i] for a Python index i, zero-based; a negative index counts from the
\* end.
PyIndex(seq, i) == IF i >= 0 THEN seq[i + 1] ELSE seq[Len(seq) + i + 1]

JobIdsIn(q) == {q[i].job_id : i \in 1..Len(q)}

\* `job_id in self.failed_jobs`
Has(q, job_id) == job_id \in JobIdsIn(q)

IndexOf(q, job_id) == CHOOSE i \in 1..Len(q) : q[i].job_id = job_id

\* self.failed_jobs[job_id]
EntryOf(q, job_id) == q[IndexOf(q, job_id)]

RemoveAt(q, i) == SubSeq(q, 1, i - 1) \o SubSeq(q, i + 1, Len(q))

\* `del self.failed_jobs[job_id]` for a key that is present.
DelEntry(q, job_id) == RemoveAt(q, IndexOf(q, job_id))

\* Eviction of the key with the largest last_attempt (max for min).
OldestIndex_Newest(q) ==
    CHOOSE i \in 1..Len(q) :
        /\ \A k \in 1..Len(q) : q[i].last_attempt >= q[k].last_attempt
        /\ \A k \in 1..(i - 1) : q[k].last_attempt < q[i].last_attempt

\* min(self.failed_jobs.keys(), key=lambda x: ...last_attempt): the first key,
\* in the dict's order, whose last_attempt is smallest.
OldestIndex(q) ==
    CHOOSE i \in 1..Len(q) :
        /\ \A k \in 1..Len(q) : q[i].last_attempt <= q[k].last_attempt
        /\ \A k \in 1..(i - 1) : q[k].last_attempt > q[i].last_attempt

\* Variant of AtCapacity: the test is `>` instead of `>=`.
AtCapacity_Above(q) == Len(q) > max_failed_jobs

\* Variant of AtCapacity: the queue counts as full one entry early.
AtCapacity_OneEarly(q) == Len(q) >= max_failed_jobs - 1

\* `len(self.failed_jobs) >= self.max_failed_jobs`: the queue is full when
\* add_to_retry_queue is entered.
AtCapacity(q) == Len(q) >= max_failed_jobs

\* The job ids add_to_retry_queue evicts from q (one when the queue is full).
EvictedBy(q) == IF AtCapacity(q) THEN {q[OldestIndex(q)].job_id} ELSE {}

AfterEviction(q) == IF AtCapacity(q) THEN RemoveAt(q, OldestIndex(q)) ELSE q

\* FailedJob(job_id, token, job_data): attempts defaults to 0.
NewFailedJobAttempts == 0

\* delay_seconds for an entry with the given attempt count.
DelaySeconds(attempts) ==
    PyIndex(retry_intervals, Min(attempts - 1, Len(retry_intervals) - 1))

\* A queue that turns a new job id away when it is full.
add_to_retry_queue_RejectsWhenFull(q, job_id, token, t) ==
    LET present  == Has(q, job_id)
        attempts == IF present THEN EntryOf(q, job_id).attempts + 1
                    ELSE NewFailedJobAttempts
        fj       == [job_id        |-> job_id,
                     printer_token |-> IF present
                                       THEN EntryOf(q, job_id).printer_token
                                       ELSE token,
                     attempts      |-> attempts,
                     last_attempt  |-> t,
                     next_retry    |-> t + DelaySeconds(attempts)]
    IN IF present THEN [q EXCEPT ![IndexOf(q, job_id)] = fj]
       ELSE IF AtCapacity(q) THEN q
       ELSE Append(q, fj)

\* self.failed_jobs after add_to_retry_queue(job_id, token, job_data) run at
\* time t.
add_to_retry_queue(q, job_id, token, t) ==
    LET q1       == AfterEviction(q)
        present  == Has(q1, job_id)
        attempts == IF present THEN EntryOf(q1, job_id).attempts + 1
                    ELSE NewFailedJobAttempts
        fj       == [job_id        |-> job_id,
                     printer_token |-> IF present
                                       THEN EntryOf(q1, job_id).printer_token
                                       ELSE token,
                     attempts      |-> attempts,
                     last_attempt  |-> t,
                     next_retry    |-> t + DelaySeconds(attempts)]
    IN IF present THEN [q1 EXCEPT ![IndexOf(q1, job_id)] = fj]
       ELSE Append(q1, fj)


----------------------------------------------------------------------------
(* The state after construction and load_config *)

\* A token no printer of the configuration has.
UnknownToken == "zz"

NoJob == 0

IdleTask == [state |-> "idle", kind |-> "none", printer |-> "", job |-> NoJob,
             attempt |-> 0, result |-> FALSE]

Coroutines == Tokens \cup {"retry", "main"}

\* The coroutines that submit print_job_sync, one call at a time each.
PrintingCoroutines == Tokens \cup {"retry"}

\* A worker thread that is not inside the end of print_job_sync: no call,
\* no value loaded.
IdleWorker == [pc |-> "idle", token |-> "", reg |-> 0, attempts |-> 0,
               error_msg |-> "", calls |-> 0]


IdleFetch == [pc |-> "idle", jobs |-> <<>>, job |-> NoJob]

NoRef == [job_id |-> NoJob, printer_token |-> "", attempts |-> 0, live |-> FALSE]

IdleRetry == [pc |-> "idle", ready |-> <<>>, cur |-> NoRef]

\* History of a job id: the dispatches of it that a coroutine saw fail, and
\* those among them that process_retry_queue made, since the job last
\* printed or was given up (or since the start).
NoHistory == [failed |-> 0, failed_retries |-> 0]

\* heartbeat_counter = 0, status_summary_counter = 0 and
\* status_export_counter = 0 before the loop; `iteration` counts the loop
\* iterations and `called` holds the periodic calls that returned in the
\* latest one.
NewCadence == [iteration |-> 0, status_export_counter |-> 0,
               heartbeat_counter |-> 0, status_summary_counter |-> 0,
               called |-> {}]

\* The client as __init__ leaves it, at time 0: no printer, an empty queue,
\* the counters at 0, last_keep_alive_check = datetime.now().
InitCommon ==
    /\ now = 0
    /\ kill_now = FALSE
    /\ running = FALSE
    /\ printers = <<>>
    /\ printer_status = [p \in {} |-> NewPrinterStatus(0)]
    /\ fetch = [p \in {} |-> IdleFetch]
    /\ failed_jobs = <<>>
    /\ stats = NewStats
    /\ last_keep_alive_check = 0
    /\ main = [pc |-> "new", ka_now |-> 0, ka_todo |-> <<>>, cycle_now |-> 0]
    /\ retry = IdleRetry
    /\ task = [c \in Coroutines |-> IdleTask]
    /\ health_writer = "none"
    /\ job_history = [j \in JobIds |-> NoHistory]
    /\ outcomes = <<>>
    /\ last_call = [op |-> "none", job_id |-> NoJob, before |-> <<>>, n |-> 0]
    /\ worker = [c \in PrintingCoroutines |-> IdleWorker]
    /\ cadence = NewCadence

----------------------------------------------------------------------------
(* load_config *)

\* An item of the 'printers' list of the configuration file: one that
\* PrinterConfig accepts, active or not, or one that raises (a key is
\* missing, or the item is not a dict).
Entry(token, kind) == [token |-> token, kind |-> kind]

Bad == Entry("", "invalid")

\* The keys of self.printers after the loop over the items, in the order in
\* which the dict got them: the tokens of the active items, each at its first
\* occurrence.
RECURSIVE ActiveTokens(_)
ActiveTokens(entries) ==
    IF entries = <<>> THEN <<>>
    ELSE LET init == ActiveTokens(SubSeq(entries, 1, Len(entries) - 1))
             e    == entries[Len(entries)]
         IN IF e.kind = "active" /\ e.token \notin {init[i] : i \in 1..Len(init)}
            THEN Append(init, e.token)
            ELSE init

\* The items that raise: each runs `self.stats['total_errors'] += 1` and the
\* loop goes on.
RECURSIVE InvalidEntries(_)
InvalidEntries(entries) ==
    IF entries = <<>> THEN 0
    ELSE (IF Head(entries).kind = "invalid" THEN 1 ELSE 0)
         + InvalidEntries(Tail(entries))

\* What load_config adds to total_errors: one for a file whose reading
\* raises (json.JSONDecodeError or any other exception of the outer try),
\* one per invalid item of a file that has the 'printers' list; nothing for
\* a file that is missing or has no such list.
ErrorsAfterLoad(file, entries) ==
    CASE file = "ok"      -> InvalidEntries(entries)
      [] file = "badjson" -> 1
      [] OTHER            -> 0

\* load_config(config_file): `file` says what the file is ("ok": JSON with a
\* 'printers' list; "missing"; "badjson"; "nolist") and `entries` are the
\* items of the list.  Every active item gets a PrinterConfig and a fresh
\* PrinterStatus, whose timestamps are datetime.now().  The call returns
\* True when at least one printer was loaded, and main() goes on to run();
\* else main() returns.
LoadConfig(file, entries) ==
    /\ main.pc = "new"
    /\ LET order == IF file = "ok" THEN ActiveTokens(entries) ELSE <<>>
           keys  == {order[i] : i \in 1..Len(order)}
       IN /\ printers' = order
          /\ printer_status' = [p \in keys |-> NewPrinterStatus(now)]
          /\ fetch' = [p \in keys |-> IdleFetch]
          /\ main' = [main EXCEPT !.pc = IF order # <<>> THEN "start" ELSE "unloaded"]
    /\ stats' = [stats EXCEPT !.total_errors = @ + ErrorsAfterLoad(file, entries)]
    /\ UNCHANGED <<cadence, worker, job_history, now, kill_now, running, failed_jobs,
                   last_keep_alive_check, retry, task, health_writer, log_level,
                   outcomes, last_call>>

\* Configuration files: one printer; two printers; the same behind an item
\* that is turned away.
OnePrinter == <<Entry("p1", "active")>>

TwoPrinters == <<Entry("p1", "active"), Entry("p2", "active")>>

----------------------------------------------------------------------------
(* The references process_retry_queue holds *)

\* ready_jobs holds the FailedJob objects themselves.  A reference is live
\* while its object is the one in self.failed_jobs; once the object has left
\* the dict (del, eviction) the reference keeps the attempts the object had.

RefTo(e) == [job_id |-> e.job_id, printer_token |-> e.printer_token,
             attempts |-> 0, live |-> TRUE]

\* failed_job.attempts, read through a reference.
RefAttempts(ref, q) ==
    IF ref.live THEN EntryOf(q, ref.job_id).attempts ELSE ref.attempts

DetachRef(ref, q, ids) ==
    IF ref.live /\ ref.job_id \in ids
    THEN [ref EXCEPT !.live = FALSE, !.attempts = EntryOf(q, ref.job_id).attempts]
    ELSE ref

\* The coroutine's references after the objects of `ids` left the dict q.
Detach(r, q, ids) ==
    [r EXCEPT !.ready = [i \in 1..Len(r.ready) |-> DetachRef(r.ready[i], q, ids)],
              !.cur = DetachRef(r.cur, q, ids)]

\* ready_jobs = [job for job in self.failed_jobs.values() if job.next_retry <= now]
IsDue(e, t) == e.next_retry <= t

RECURSIVE ReadyJobs(_, _)
ReadyJobs(q, t) ==
    IF q = <<>> THEN <<>>
    ELSE (IF IsDue(Head(q), t) THEN <<RefTo(Head(q))>> ELSE <<>>)
         \o ReadyJobs(Tail(q), t)

----------------------------------------------------------------------------
(* The clock and the shutdown signal *)

\* Time passes: the clock is read next at the instant t.
Tick(t) ==
    /\ main.pc \notin {"unloaded", "closed"}
    /\ t > now
    /\ now' = t
    /\ UNCHANGED <<cadence, worker, printers, job_history, kill_now, running, printer_status, failed_jobs,
                   stats, last_keep_alive_check, main, fetch, retry, task,
                   health_writer, log_level, outcomes, last_call>>

\* GracefulKiller._signal_handler: SIGINT or SIGTERM arrives.  The handler,
\* installed with signal.signal, runs on the main thread between any two
\* bytecodes.  This action is its run between two segments of the loop
\* thread, which is also what a run inside a segment amounts to, except in
\* the segments that pass the head of a task loop and submit a print: there
\* the handler can run after the `if self.killer.kill_now` test and before
\* run_in_executor (SignalHandlerAtHead); and in the segments of
\* process_retry_queue that test the flag again after an entry they skip
\* (RetryLoop).
Kill ==
    /\ main.pc \notin {"unloaded", "closed"}
    /\ ~kill_now
    /\ kill_now' = TRUE
    /\ UNCHANGED <<cadence, worker, printers, job_history, now, running, printer_status, failed_jobs, stats,
                   last_keep_alive_check, main, fetch, retry, task,
                   health_writer, log_level, outcomes, last_call>>

\* Coroutine c submits a call of print_job_sync to the pool in the step.
PrintSubmitted(c) ==
    /\ task'[c] # task[c]
    /\ task'[c].state = "running"
    /\ task'[c].kind = "print"

\* The shutdown flag after a segment in which coroutine c passes the head of
\* its loop.  When the segment submits a print (the test `if
\* self.killer.kill_now` found the flag unset), GracefulKiller._signal_handler
\* may have run between that test and run_in_executor, where
\* process_printer_jobs evaluates job.get('id') and
\* asyncio.get_event_loop() and process_retry_queue looks up the printer
\* and logs: the call is then made with the flag set.
SignalHandlerAtHead(c) ==
    \E signalled \in BOOLEAN :
        kill_now' = (kill_now \/ (signalled /\ PrintSubmitted(c)))

----------------------------------------------------------------------------
(* print_executor: the blocking calls, run on worker threads *)

\* loop.run_in_executor(self.print_executor, fn, ...): the pool has 5
\* workers and at most one call per coroutine is in flight, so a worker is
\* always free and the call starts at once.
Submitted(kind, printer, job) ==
    [state |-> "running", kind |-> kind, printer |-> printer, job |-> job,
     attempt |-> 0, result |-> FALSE]

Finished(t, attempts, result) ==
    [t EXCEPT !.state = "done", !.attempt = attempts, !.result = result]

\* What the last attempt of a call of print_job_sync can meet: the job
\* printed ("ok"); no connection (create_printer_connection returned None);
\* the rendering returned False; an exception was raised.
PrintOutcomes == {"ok", "noconn", "fail", "exc"}

\* A loop that returns a failure from any attempt.
PrintRuns_FailsEarly == [attempts : 1..max_attempts, last : PrintOutcomes]

\* The ways the `for attempt in range(max_attempts)` loop can run: it ends
\* with "ok" at any attempt, every attempt before having failed, or with a
\* failure at the last attempt.
PrintRuns ==
    {r \in [attempts : 1..max_attempts, last : PrintOutcomes] :
        r.last = "ok" \/ ~(r.attempts - 1 < max_attempts - 1)}

\* The positions of a worker thread in the success branch of print_job_sync
\* (from update_printer_status(token, True) to `return True`) and in its
\* failure branches (to `return False`).  A position names the read, test
\* or write of shared data that the thread makes next.
OkPcs == {"ok_test", "cr_load", "cr_store", "ok_cf", "ok_healthy", "ok_err"}

FailPcs == {"cf_store", "err_store", "test_cf", "test_healthy", "flip",
            "te_load", "te_store", "jf_load", "jf_store"}

\* Successful prints whose jobs_processed increment is still to come.
SuccessesInFlight ==
    Cardinality({c \in PrintingCoroutines : worker[c].pc \in OkPcs})
    + Cardinality({c \in Coroutines : task[c].state = "done" /\ task[c].kind = "print"
                                       /\ task[c].result})
    + Cardinality({p \in Printers : fetch[p].pc = "report_done"})
    + (IF retry.pc = "report_done" THEN 1 ELSE 0)

\* Failed prints whose jobs_failed increment is still to come.
FailuresInFlight == Cardinality({c \in PrintingCoroutines : worker[c].pc \in FailPcs})

\* Worker thread w at position pc, with reg loaded.
At(w, pc, reg) == [w EXCEPT !.pc = pc, !.reg = reg]

\* print_job_sync(printer_config, job_data) on the worker thread that runs
\* the call of coroutine c, up to the first access to shared data that
\* follows the outcome of its last attempt (the attempts before it fail,
\* sleep and change nothing).  Printed: `status.last_job_printed =
\* datetime.now()`, then update_printer_status(token, True).  No connection:
\* the read of `self.stats['jobs_failed'] += 1`.  Rendering failed or an
\* exception: update_printer_status(token, False, ...), whose first access
\* is the read of `status.consecutive_failures += 1`.
PrintJobSync(c, run, cap) ==
    /\ task[c].state = "running"
    /\ task[c].kind = "print"
    /\ worker[c].pc = "idle"
    /\ LET t == task[c]
           p == t.printer
           w == worker[c]
       IN
       IF run.last = "ok" THEN
           /\ stats.jobs_processed + SuccessesInFlight < cap.jobs_processed
           /\ printer_status' = [printer_status EXCEPT ![p].last_job_printed = now]
           /\ worker' = [worker EXCEPT ![c] =
                            [At(w, "ok_test", 0)
                                EXCEPT !.token = p, !.attempts = run.attempts,
                                       !.error_msg = ""]]
           /\ health_writer' = "worker"
       ELSE IF run.last = "noconn" THEN
           /\ stats.jobs_failed + FailuresInFlight < cap.jobs_failed
           /\ worker' = [worker EXCEPT ![c] =
                            [At(w, "jf_store", stats.jobs_failed)
                                EXCEPT !.token = p, !.attempts = run.attempts,
                                       !.error_msg = ""]]
           /\ UNCHANGED <<printer_status, health_writer>>
       ELSE
           /\ stats.jobs_failed + FailuresInFlight < cap.jobs_failed
           /\ worker' = [worker EXCEPT ![c] =
                            [At(w, "cf_store", printer_status[p].consecutive_failures)
                                EXCEPT !.token = p, !.attempts = run.attempts,
                                       !.error_msg = run.last]]
           /\ UNCHANGED <<printer_status, health_writer>>
    /\ UNCHANGED <<cadence, printers, job_history, now, kill_now, running, failed_jobs,
                   stats, last_keep_alive_check, main, fetch, retry, task, log_level,
                   outcomes, last_call>>

\* The worker thread back in the pool, its call returned.
Returned(w) == [IdleWorker EXCEPT !.calls = w.calls]

\* The worker thread of coroutine c makes its next access to shared data in
\* update_printer_status or in print_job_sync; the threads of the pool
\* interleave between such accesses (`x += 1` is a read and a write).  The
\* last access of a call is followed by its return, which completes the
\* future the coroutine awaits.
WorkerStep(c) ==
    LET w  == worker[c]
        t  == w.token
        st == printer_status[t]
    IN
    /\ w.pc # "idle"
    /\ CASE w.pc = "cf_store" ->
              \* status.consecutive_failures += 1, the write
              /\ printer_status' = [printer_status EXCEPT
                                       ![t].consecutive_failures = w.reg + 1]
              /\ worker' = [worker EXCEPT ![c] = At(w, "err_store", 0)]
              /\ UNCHANGED <<stats, task>>
         [] w.pc = "err_store" ->
              \* status.last_error = error_msg
              /\ printer_status' = [printer_status EXCEPT ![t].last_error = w.error_msg]
              /\ worker' = [worker EXCEPT ![c] = At(w, "test_cf", 0)]
              /\ UNCHANGED <<stats, task>>
         [] w.pc = "test_cf" ->
              \* `status.consecutive_failures >= 3 and ...`
              /\ worker' = [worker EXCEPT ![c] =
                              At(w, IF st.consecutive_failures >= UnhealthyThreshold
                                    THEN "test_healthy" ELSE "jf_load", 0)]
              /\ UNCHANGED <<printer_status, stats, task>>
         [] w.pc = "test_healthy" ->
              \* `... and status.is_healthy`
              /\ worker' = [worker EXCEPT ![c] =
                              At(w, IF st.is_healthy THEN "flip" ELSE "jf_load", 0)]
              /\ UNCHANGED <<printer_status, stats, task>>
         [] w.pc = "flip" ->
              \* status.is_healthy = False
              /\ printer_status' = [printer_status EXCEPT ![t].is_healthy = FALSE]
              /\ worker' = [worker EXCEPT ![c] = At(w, "te_load", 0)]
              /\ UNCHANGED <<stats, task>>
         [] w.pc = "te_load" ->
              \* self.stats['total_errors'] += 1
              /\ worker' = [worker EXCEPT ![c] = At(w, "te_store", stats.total_errors)]
              /\ UNCHANGED <<printer_status, stats, task>>
         [] w.pc = "te_store" ->
              /\ stats' = [stats EXCEPT !.total_errors = w.reg + 1]
              /\ worker' = [worker EXCEPT ![c] = At(w, "jf_load", 0)]
              /\ UNCHANGED <<printer_status, task>>
         [] w.pc = "jf_load" ->
              \* self.stats['jobs_failed'] += 1
              /\ worker' = [worker EXCEPT ![c] = At(w, "jf_store", stats.jobs_failed)]
              /\ UNCHANGED <<printer_status, stats, task>>
         [] w.pc = "jf_store" ->
              \* ... and `return False`
              /\ stats' = [stats EXCEPT !.jobs_failed = w.reg + 1]
              /\ worker' = [worker EXCEPT ![c] = Returned(w)]
              /\ task' = [task EXCEPT ![c] = Finished(@, w.attempts, FALSE)]
              /\ UNCHANGED printer_status
         [] w.pc = "ok_test" ->
              \* `status.consecutive_failures > 0 and isEnabledFor(INFO)`
              /\ worker' = [worker EXCEPT ![c] =
                              At(w, IF st.consecutive_failures > 0 /\ InfoEnabled
                                    THEN "cr_load" ELSE "ok_cf", 0)]
              /\ UNCHANGED <<printer_status, stats, task>>
         [] w.pc = "cr_load" ->
              \* self.stats['connections_restored'] += 1
              /\ worker' = [worker EXCEPT ![c] =
                              At(w, "cr_store", stats.connections_restored)]
              /\ UNCHANGED <<printer_status, stats, task>>
         [] w.pc = "cr_store" ->
              /\ stats' = [stats EXCEPT !.connections_restored = w.reg + 1]
              /\ worker' = [worker EXCEPT ![c] = At(w, "ok_cf", 0)]
              /\ UNCHANGED <<printer_status, task>>
         [] w.pc = "ok_cf" ->
              \* status.consecutive_failures = 0
              /\ printer_status' = [printer_status EXCEPT ![t].consecutive_failures = 0]
              /\ worker' = [worker EXCEPT ![c] = At(w, "ok_healthy", 0)]
              /\ UNCHANGED <<stats, task>>
         [] w.pc = "ok_healthy" ->
              \* status.is_healthy = True
              /\ printer_status' = [printer_status EXCEPT ![t].is_healthy = TRUE]
              /\ worker' = [worker EXCEPT ![c] = At(w, "ok_err", 0)]
              /\ UNCHANGED <<stats, task>>
         [] w.pc = "ok_err" ->
              \* status.last_error = "", and `return True`
              /\ printer_status' = [printer_status EXCEPT ![t].last_error = ""]
              /\ worker' = [worker EXCEPT ![c] = Returned(w)]
              /\ task' = [task EXCEPT ![c] = Finished(@, w.attempts, TRUE)]
              /\ UNCHANGED stats
    /\ health_writer' =
          IF w.pc \in {"cf_store", "err_store", "flip", "ok_cf", "ok_healthy", "ok_err"}
          THEN "worker" ELSE health_writer
    /\ UNCHANGED <<cadence, printers, now, kill_now, running, failed_jobs,
                   last_keep_alive_check, main, fetch, retry,
                   log_level, job_history, outcomes, last_call>>

\* test_printer_with_keep_alive on a worker thread: it returns (True, ...)
\* or (False, ...) and raises nothing.
KeepAliveProbe(success, cap) ==
    /\ task["main"].state = "running"
    /\ task["main"].kind = "keepalive"
    /\ IF success THEN stats.keep_alives_sent < cap.keep_alives_sent
       ELSE stats.keep_alives_failed < cap.keep_alives_failed
    /\ task' = [task EXCEPT !["main"] = Finished(@, 1, success)]
    /\ UNCHANGED <<cadence, worker, printers, job_history, now, kill_now, running, printer_status, failed_jobs,
                   stats, last_keep_alive_check, main, fetch, retry,
                   health_writer, log_level, outcomes, last_call>>

----------------------------------------------------------------------------
(* process_retry_queue(session) *)

\* The coroutine at the head of `for failed_job in ready_jobs` with `ready`
\* left to visit and q the dict self.failed_jobs; `tests` is the number of
\* tests `if self.killer.kill_now` that still find the flag unset (0 when it
\* is set already).  The loop returns when the list is exhausted or the flag
\* is set (`stopped`: with entries left).  An entry whose printer_token is
\* not in self.printers is deleted from the dict by its key, with an
\* unguarded `del` (KeyError when the key is gone), and skipped.  Any other
\* entry is taken and its print awaited.
RECURSIVE RetryAtHead(_, _, _)
RetryAtHead(ready, q, tests) ==
    IF ready = <<>> \/ tests = 0
    THEN [retry |-> [IdleRetry EXCEPT !.pc = "done"], failed_jobs |-> q,
          stopped |-> ready # <<>>]
    ELSE IF Head(ready).printer_token \notin Printers
    THEN IF Has(q, Head(ready).job_id)
         THEN RetryAtHead(Tail(ready), DelEntry(q, Head(ready).job_id), tests - 1)
         ELSE [retry |-> [IdleRetry EXCEPT !.pc = "raised"], failed_jobs |-> q,
               stopped |-> FALSE]
    ELSE [retry |-> [pc |-> "printing", ready |-> Tail(ready), cur |-> Head(ready)],
          failed_jobs |-> q, stopped |-> FALSE]

\* The call that coroutine state r has in the pool.
RetryTask(r) ==
    IF r.pc = "printing"
    THEN Submitted("print", r.cur.printer_token, r.cur.job_id)
    ELSE IdleTask

\* The rest of a segment of process_retry_queue from the head of its loop
\* on, with `ready` left to visit and q the dict after the bookkeeping of
\* the segment.  GracefulKiller._signal_handler can run anywhere in it: a
\* flag that is unset at the first test is found set at a later test of the
\* segment (the loop stops after the entries skipped until then), or is set
\* between the last test and run_in_executor, or stays unset.
RetryLoop(ready, q) ==
    \E tests \in (IF kill_now THEN {0} ELSE 1..(Len(ready) + 1)) :
        LET h == RetryAtHead(ready, q, tests)
        IN /\ retry' = h.retry
           /\ task' = [task EXCEPT !["retry"] = RetryTask(h.retry)]
           /\ failed_jobs' = h.failed_jobs
           /\ IF h.stopped THEN kill_now' = TRUE ELSE SignalHandlerAtHead("retry")

\* The retry print returned.  Success: the 'done' report starts.  Failure
\* with attempts >= 5: the entry is deleted (KeyError when it is no longer
\* in the dict) and the 'error' report starts.  Failure below the ceiling:
\* add_to_retry_queue, and on to the next entry without an await.
RetryPrinted ==
    /\ retry.pc = "printing"
    /\ task["retry"].state = "done"
    /\ job_history' =
          IF ~task["retry"].result
             /\ RefAttempts(retry.cur, failed_jobs) < GiveUpCeiling
          THEN [job_history EXCEPT ![retry.cur.job_id] =
                    [failed |-> @.failed + 1,
                     failed_retries |-> @.failed_retries + 1]]
          ELSE [job_history EXCEPT ![retry.cur.job_id] = NoHistory]
    /\ LET failed_job == retry.cur IN
       IF task["retry"].result
       THEN /\ retry' = [retry EXCEPT !.pc = "report_done"]
            /\ task' = [task EXCEPT !["retry"] = IdleTask]
            /\ UNCHANGED <<failed_jobs, kill_now>>
       ELSE IF RefAttempts(failed_job, failed_jobs) >= GiveUpCeiling
       THEN IF Has(failed_jobs, failed_job.job_id)
            THEN /\ failed_jobs' = DelEntry(failed_jobs, failed_job.job_id)
                 /\ retry' = Detach([retry EXCEPT !.pc = "report_giveup"],
                                    failed_jobs, {failed_job.job_id})
                 /\ task' = [task EXCEPT !["retry"] = IdleTask]
                 /\ UNCHANGED kill_now
            ELSE /\ retry' = [IdleRetry EXCEPT !.pc = "raised"]
                 /\ task' = [task EXCEPT !["retry"] = IdleTask]
                 /\ UNCHANGED <<failed_jobs, kill_now>>
       ELSE RetryLoop(Detach(retry, failed_jobs, EvictedBy(failed_jobs)).ready,
                      add_to_retry_queue(failed_jobs, failed_job.job_id,
                                         failed_job.printer_token, now))
    /\ UNCHANGED <<cadence, worker, printers, now, running, printer_status, stats,
                   last_keep_alive_check, main, fetch, health_writer, log_level,
                   outcomes, last_call>>

\* update_job_status returned (with `raised`, after an exception that it
\* counted in total_errors).  After 'done': the entry is deleted (KeyError
\* when it is no longer in the dict) and the job is counted.  After the
\* 'error' of a give-up: on to the next entry.
RetryReported(raised, cap) ==
    /\ retry.pc \in {"report_done", "report_giveup"}
    /\ raised => stats.total_errors < cap.total_errors
    /\ LET job_id == retry.cur.job_id
           st     == IF raised THEN [stats EXCEPT !.total_errors = @ + 1] ELSE stats
       IN IF retry.pc = "report_giveup"
          THEN /\ RetryLoop(retry.ready, failed_jobs)
               /\ stats' = st
          ELSE IF Has(failed_jobs, job_id)
          THEN /\ RetryLoop(Detach(retry, failed_jobs, {job_id}).ready,
                            DelEntry(failed_jobs, job_id))
               /\ stats' = [st EXCEPT !.jobs_processed = @ + 1,
                                      !.jobs_retried = @ + 1]
          ELSE /\ retry' = [IdleRetry EXCEPT !.pc = "raised"]
               /\ stats' = st
               /\ UNCHANGED <<failed_jobs, task, kill_now>>
    /\ UNCHANGED <<cadence, worker, printers, job_history, now, running, printer_status,
                   last_keep_alive_check, main, fetch, health_writer, log_level,
                   outcomes, last_call>>

----------------------------------------------------------------------------
(* process_printer_jobs(session, token) *)

\* The ids a job of printer p can carry: its own job ids, or none (a job
\* without 'id', or with a falsy one).
IdsServedTo(p) == {j \in JobIds : PrinterOf(j) = p} \cup {NoJob}

RECURSIVE SeqsUpTo(_, _)
SeqsUpTo(S, n) ==
    IF n = 0 THEN {<<>>}
    ELSE LET shorter == SeqsUpTo(S, n - 1)
         IN shorter \cup {Append(q, x) : q \in shorter, x \in S}

\* The job lists get_jobs_from_odoo can return for printer p.
Batches(p) == SeqsUpTo(IdsServedTo(p), MaxBatch)

\* An item of the job list that is not a dict: `job.get('id')` raises
\* AttributeError on it.
NotADict == -1

\* A loop that ends at the first job without an id.
SkipNoId_StopsAtNoId(jobs) ==
    IF jobs = <<>> \/ Head(jobs) = NoJob THEN <<>> ELSE jobs

\* `if not job_id: continue`: the jobs left from the first one that has an id.
RECURSIVE SkipNoId(_)
SkipNoId(jobs) ==
    IF jobs = <<>> THEN <<>>
    ELSE IF Head(jobs) = NoJob THEN SkipNoId(Tail(jobs))
    ELSE jobs

\* A loop that visits the jobs from the end of the list.
FetchAtHead_LastFirst(jobs) ==
    IF kill_now \/ SkipNoId(jobs) = <<>>
    THEN [IdleFetch EXCEPT !.pc = "done"]
    ELSE IF Head(SkipNoId(jobs)) = NotADict
    THEN [IdleFetch EXCEPT !.pc = "raised"]
    ELSE [pc |-> "printing",
          jobs |-> SubSeq(SkipNoId(jobs), 1, Len(SkipNoId(jobs)) - 1),
          job |-> SkipNoId(jobs)[Len(SkipNoId(jobs))]]

\* The coroutine at the head of `for job in jobs` with `jobs` left to visit:
\* it returns when the shutdown signal is set or no job with an id is left;
\* at an item that is not a dict `job.get('id')` raises, nothing in
\* process_printer_jobs catches it and the coroutine ends with the
\* exception, which asyncio.gather collects as the task's result; else it
\* takes the next job with an id and awaits its print.
FetchAtHead(jobs) ==
    IF kill_now \/ SkipNoId(jobs) = <<>>
    THEN [IdleFetch EXCEPT !.pc = "done"]
    ELSE IF Head(SkipNoId(jobs)) = NotADict
    THEN [IdleFetch EXCEPT !.pc = "raised"]
    ELSE [pc |-> "printing", jobs |-> Tail(SkipNoId(jobs)), job |-> Head(SkipNoId(jobs))]

\* The call that coroutine state f of printer p has in the pool.
FetchTask(p, f) ==
    IF f.pc = "printing" THEN Submitted("print", p, f.job) ELSE IdleTask

\* get_jobs_from_odoo returns: the jobs of the response, or [] (a status
\* other than 200, a timeout, or, with `raised`, another exception, which
\* is counted in total_errors).  `if not jobs: return 0`, else the loop
\* starts.  A reply is handled after every task of the cycle has made its
\* first run.
FetchReturn(p, batch, raised, cap) ==
    /\ fetch[p].pc = "fetching"
    /\ retry.pc # "created"
    /\ raised => batch = <<>> /\ stats.total_errors < cap.total_errors
    /\ stats' = IF raised THEN [stats EXCEPT !.total_errors = @ + 1] ELSE stats
    /\ LET f == FetchAtHead(batch)
       IN /\ fetch' = [fetch EXCEPT ![p] = f]
          /\ task' = [task EXCEPT ![p] = FetchTask(p, f)]
    /\ SignalHandlerAtHead(p)
    /\ UNCHANGED <<cadence, worker, printers, job_history, now, running, printer_status, failed_jobs,
                   last_keep_alive_check, main, retry, health_writer,
                   log_level, outcomes, last_call>>

\* The print returned: `await self.update_job_status(..., 'done')` or
\* `await self.update_job_status(..., 'error')` starts.
FetchPrinted(p) ==
    /\ fetch[p].pc = "printing"
    /\ task[p].state = "done"
    /\ fetch' = [fetch EXCEPT ![p].pc = IF task[p].result THEN "report_done"
                                        ELSE "report_error"]
    /\ task' = [task EXCEPT ![p] = IdleTask]
    /\ UNCHANGED <<cadence, worker, printers, job_history, now, kill_now, running, printer_status, failed_jobs,
                   stats, last_keep_alive_check, main, retry, health_writer,
                   log_level, outcomes, last_call>>

\* Variant of Purged: the entry is left in the queue.
Purged_Kept(q, job_id) == q

\* `del self.failed_jobs[job_id]` guarded by `if job_id in self.failed_jobs`.
Purged(q, job_id) == IF Has(q, job_id) THEN DelEntry(q, job_id) ELSE q

\* update_job_status returned (with `raised`, after an exception that it
\* counted in total_errors): the success branch counts the job and purges
\* its retry entry, the failure branch enqueues it; then the next job.
FetchReported(p, raised, cap) ==
    /\ fetch[p].pc \in {"report_done", "report_error"}
    /\ raised => stats.total_errors < cap.total_errors
    /\ job_history' =
          IF fetch[p].pc = "report_done"
          THEN [job_history EXCEPT ![fetch[p].job] = NoHistory]
          ELSE [job_history EXCEPT ![fetch[p].job].failed = @ + 1]
    /\ LET job_id == fetch[p].job
           st     == IF raised THEN [stats EXCEPT !.total_errors = @ + 1] ELSE stats
           f      == FetchAtHead(fetch[p].jobs)
       IN /\ IF fetch[p].pc = "report_done"
             THEN /\ stats' = [st EXCEPT !.jobs_processed = @ + 1]
                  /\ failed_jobs' = Purged(failed_jobs, job_id)
                  /\ retry' = Detach(retry, failed_jobs,
                                     {job_id} \cap JobIdsIn(failed_jobs))
             ELSE /\ stats' = st
                  /\ failed_jobs' = add_to_retry_queue(failed_jobs, job_id, p, now)
                  /\ retry' = Detach(retry, failed_jobs, EvictedBy(failed_jobs))
          /\ fetch' = [fetch EXCEPT ![p] = f]
          /\ task' = [task EXCEPT ![p] = FetchTask(p, f)]
    /\ SignalHandlerAtHead(p)
    /\ UNCHANGED <<cadence, worker, printers, now, running, printer_status,
                   last_keep_alive_check, main, health_writer, log_level,
                   outcomes, last_call>>

----------------------------------------------------------------------------
(* run(), main_loop() and perform_keep_alive() *)

Max(a, b) == IF a > b THEN a ELSE b

\* run(): self.running = True, then main_loop().
Run ==
    /\ main.pc = "start"
    /\ running' = TRUE
    /\ main' = [main EXCEPT !.pc = "loop"]
    /\ UNCHANGED <<cadence, worker, printers, job_history, now, kill_now, printer_status, failed_jobs, stats,
                   last_keep_alive_check, fetch, retry, task, health_writer,
                   log_level, outcomes, last_call>>

\* A test that leaves out the printers marked unhealthy.
KeepAliveDue_HealthyOnly(status, t) ==
    /\ status.is_healthy
    /\ t - Max(status.last_keep_alive, status.last_job_printed)
          > printer_keep_alive_interval

\* A test that also probes a printer idle for exactly its interval.
KeepAliveDue_AtLeast(status, t) ==
    t - Max(status.last_keep_alive, status.last_job_printed)
        >= printer_keep_alive_interval

\* seconds_since_activity > printer_config.keep_alive_interval
KeepAliveDue(status, t) ==
    t - Max(status.last_keep_alive, status.last_job_printed)
        > printer_keep_alive_interval

\* `for token, printer_config in self.printers.items()` of
\* perform_keep_alive: the printers left from the first one that is due.
RECURSIVE SkipNotDue(_, _, _)
SkipNotDue(todo, ps, t) ==
    IF todo = <<>> THEN <<>>
    ELSE IF KeepAliveDue(ps[Head(todo)], t) THEN todo
    ELSE SkipNotDue(Tail(todo), ps, t)

\* A task that asyncio.gather has created and the loop has not run yet.
CreatedFetch == [IdleFetch EXCEPT !.pc = "created"]

CreatedRetry == [IdleRetry EXCEPT !.pc = "created"]

\* main_loop builds the coroutines, one process_printer_jobs per printer in
\* the order of self.printers and then process_retry_queue, and awaits
\* asyncio.gather, which makes a task of each: none has run yet when
\* main_loop yields to the event loop.
GatherStarted ==
    /\ fetch' = [p \in Printers |-> CreatedFetch]
    /\ retry' = CreatedRetry
    /\ task' = [task EXCEPT !["main"] = IdleTask]

\* `if status_export_counter >= 10`, `if heartbeat_counter >= 20` and
\* `if status_summary_counter >= 100`
ExportEvery == 10
HeartbeatEvery == 20
SummaryEvery == 100

\* A counter n after `n += 1; if n >= every: <call>; n = 0`.
Stepped(n, every) == IF n + 1 >= every THEN 0 ELSE n + 1

\* This iteration calls export_status: `status_export_counter += 1`, then
\* `if status_export_counter >= 10`.
ExportCalled(c) == c.status_export_counter + 1 >= ExportEvery

\* Counters that are tested before they are incremented.
CadenceAfter_TestFirst(c, raises) ==
    [iteration |-> c.iteration + 1,
     status_export_counter |->
         IF c.status_export_counter >= ExportEvery THEN 0
         ELSE c.status_export_counter + 1,
     heartbeat_counter |->
         IF c.heartbeat_counter >= HeartbeatEvery THEN 0
         ELSE c.heartbeat_counter + 1,
     status_summary_counter |->
         IF c.status_summary_counter >= SummaryEvery THEN 0
         ELSE c.status_summary_counter + 1,
     called |->
         (IF c.status_export_counter >= ExportEvery THEN {"export"} ELSE {})
         \cup (IF c.heartbeat_counter >= HeartbeatEvery THEN {"heartbeat"} ELSE {})
         \cup (IF c.status_summary_counter >= SummaryEvery THEN {"summary"} ELSE {})]

\* The counters after the loop body of one iteration ran from
\* `status_export_counter += 1` on, and the periodic calls that returned.
\* With `raises` export_status raises: its counter is not reset and the
\* statements behind the call do not run.  Else the body runs to
\* `status_summary_counter = 0` (heartbeat and print_status_summary only
\* log).
CadenceAfter(c, raises) ==
    IF raises
    THEN [c EXCEPT !.iteration = @ + 1,
                   !.status_export_counter = @ + 1,
                   !.called = {}]
    ELSE [iteration |-> c.iteration + 1,
          status_export_counter |-> Stepped(c.status_export_counter, ExportEvery),
          heartbeat_counter |-> Stepped(c.heartbeat_counter, HeartbeatEvery),
          status_summary_counter |-> Stepped(c.status_summary_counter, SummaryEvery),
          called |->
              (IF ExportCalled(c) THEN {"export"} ELSE {})
              \cup (IF c.heartbeat_counter + 1 >= HeartbeatEvery
                    THEN {"heartbeat"} ELSE {})
              \cup (IF c.status_summary_counter + 1 >= SummaryEvery
                    THEN {"summary"} ELSE {})]

\* The rest of a cycle after the keep-alive test: the three counters and
\* the periodic export, heartbeat and summary, then the cycle's tasks.  With
\* `raises` export_status, which this cycle calls, raises an exception:
\* `except Exception` counts it (the caller adds it to total_errors) and
\* `await asyncio.sleep(5)` starts.
CycleBody(raises) ==
    /\ cadence' = CadenceAfter(cadence, raises)
    /\ IF raises
       THEN /\ task' = [task EXCEPT !["main"] = IdleTask]
            /\ UNCHANGED <<fetch, retry>>
       ELSE GatherStarted

\* A loop that ends when a cycle raises.
BodyPc_Terminates(raises) == IF raises THEN "exit" ELSE "gather"

\* The position of main_loop in the rest of the cycle.
BodyPc(raises) == IF raises THEN "cooldown" ELSE "gather"

\* self.stats after the `except Exception` clause of main_loop ran, if it did.
StatsAfterCycleError(st, raises) ==
    IF raises THEN [st EXCEPT !.total_errors = @ + 1] ELSE st

\* perform_keep_alive with `todo` left to visit at time ka_now: it awaits
\* the probe of the first printer that is due; when none is left it
\* returns, main_loop sets self.last_keep_alive_check = now and goes on
\* with the rest of the cycle.
KeepAliveAtHead(todo, ps, ka_now, cycle_now, raises) ==
    LET due == SkipNotDue(todo, ps, ka_now) IN
    IF due = <<>>
    THEN /\ last_keep_alive_check' = cycle_now
         /\ main' = [pc |-> BodyPc(raises), ka_now |-> 0, ka_todo |-> <<>>,
                     cycle_now |-> 0]
         /\ CycleBody(raises)
    ELSE /\ main' = [pc |-> "ka_wait", ka_now |-> ka_now, ka_todo |-> due,
                     cycle_now |-> cycle_now]
         /\ task' = [task EXCEPT !["main"] = Submitted("keepalive", Head(due), NoJob)]
         /\ UNCHANGED <<last_keep_alive_check, fetch, retry, cadence>>

\* The global keep-alive check is due when a cycle starts at time t.
CheckDue(t) == t - last_keep_alive_check >= keep_alive_interval

\* A `while` test that does not look at the shutdown signal.
LoopGoesOn_IgnoresSignal == running

\* The `while` test of main_loop holds.
LoopGoesOn == running /\ ~kill_now

\* `while self.running and not self.killer.kill_now`, then `now =
\* datetime.now()` and the test of the periodic keep-alive check.  When the
\* check is due perform_keep_alive is called (its first statement reads the
\* clock again); else the rest of the cycle follows (in which, with
\* `raises`, an exception is raised).  A behaviour holds at most cap.cycles
\* cycles, and a cycle that raises is not the last of them.
LoopTest(raises, cap) ==
    /\ main.pc = "loop"
    /\ LoopGoesOn => cadence.iteration < cap.cycles
    /\ raises =>
           /\ LoopGoesOn
           /\ ~CheckDue(now)
           /\ ExportCalled(cadence)
           /\ cadence.iteration + 1 < cap.cycles
           /\ stats.total_errors < cap.total_errors
    /\ stats' = StatsAfterCycleError(stats, raises)
    /\ IF ~LoopGoesOn
       THEN /\ main' = [main EXCEPT !.pc = "exit"]
            /\ UNCHANGED <<fetch, retry, task, cadence>>
       ELSE IF CheckDue(now)
       THEN /\ main' = [main EXCEPT !.pc = "ka_start", !.cycle_now = now]
            /\ UNCHANGED <<fetch, retry, task, cadence>>
       ELSE /\ main' = [main EXCEPT !.pc = BodyPc(raises)]
            /\ CycleBody(raises)
    /\ UNCHANGED <<worker, printers, job_history, now, kill_now, running, printer_status, failed_jobs,
                   last_keep_alive_check, health_writer, log_level, outcomes, last_call>>

\* perform_keep_alive from `now = datetime.now()` to its first await, or,
\* when no printer is due, to its return and on with main_loop (in the rest
\* of whose cycle, with `raises`, an exception is raised).
KeepAliveStart(raises, cap) ==
    /\ main.pc = "ka_start"
    /\ raises =>
           /\ SkipNotDue(printers, printer_status, now) = <<>>
           /\ ExportCalled(cadence)
           /\ cadence.iteration + 1 < cap.cycles
           /\ stats.total_errors < cap.total_errors
    /\ stats' = StatsAfterCycleError(stats, raises)
    /\ KeepAliveAtHead(printers, printer_status, now, main.cycle_now, raises)
    /\ UNCHANGED <<worker, printers, job_history, now, kill_now, running, printer_status, failed_jobs,
                   health_writer, log_level, outcomes, last_call>>

\* The first run of the task of process_printer_jobs(token): up to the
\* request of get_jobs_from_odoo.  The event loop runs the tasks of a cycle
\* in the order in which asyncio.gather created them.
FetchStart(p) ==
    /\ fetch[p].pc = "created"
    /\ \A i \in 1..Len(printers) :
           printers[i] = p => \A k \in 1..(i - 1) : fetch[printers[k]].pc # "created"
    /\ fetch' = [fetch EXCEPT ![p].pc = "fetching"]
    /\ UNCHANGED <<cadence, worker, printers, job_history, now, kill_now, running, printer_status, failed_jobs,
                   stats, last_keep_alive_check, main, retry, task, health_writer,
                   log_level, outcomes, last_call>>

\* The first run of the task of process_retry_queue, after those of the
\* printers: `now = datetime.now()`, ready_jobs, and the loop over them up
\* to the first print it awaits.
RetryStart ==
    /\ retry.pc = "created"
    /\ \A p \in Printers : fetch[p].pc # "created"
    /\ RetryLoop(ReadyJobs(failed_jobs, now), failed_jobs)
    /\ UNCHANGED <<cadence, worker, printers, job_history, now, running, printer_status,
                   stats, last_keep_alive_check, main, fetch, health_writer,
                   log_level, outcomes, last_call>>

\* A pass that stamps last_keep_alive after every probe, failed or not.
StatusAfterProbe_StampsFailure(ps, token, success, ka_now) ==
    StatusAfterUpdate([ps EXCEPT ![token].last_keep_alive = ka_now],
                      token, success, IF success THEN "" ELSE "Keep-alive")

\* The PrinterStatus records after perform_keep_alive applied a probe's
\* result for `token`.
StatusAfterProbe(ps, token, success, ka_now) ==
    IF success
    THEN StatusAfterUpdate([ps EXCEPT ![token].last_keep_alive = ka_now],
                           token, TRUE, "")
    ELSE StatusAfterUpdate(ps, token, FALSE, "Keep-alive")

\* perform_keep_alive after `await loop.run_in_executor(...)`: the loop
\* thread applies the probe's result and goes on with the next printer, or,
\* after the last one, with the rest of the cycle (in which, with `raises`,
\* an exception is raised).
KeepAliveDone(raises, cap) ==
    /\ main.pc = "ka_wait"
    /\ task["main"].state = "done"
    /\ LET token   == task["main"].printer
           success == task["main"].result
           ps      == StatusAfterProbe(printer_status, token, success, main.ka_now)
       IN /\ raises =>
                 /\ SkipNotDue(Tail(main.ka_todo), ps, main.ka_now) = <<>>
                 /\ ExportCalled(cadence)
                 /\ cadence.iteration + 1 < cap.cycles
                 /\ stats.total_errors < cap.total_errors
          /\ printer_status' = ps
          /\ stats' =
                 StatsAfterCycleError(
                     IF success
                     THEN [StatsAfterUpdate(stats, printer_status, token, TRUE)
                              EXCEPT !.keep_alives_sent = @ + 1]
                     ELSE [StatsAfterUpdate(stats, printer_status, token, FALSE)
                              EXCEPT !.keep_alives_failed = @ + 1],
                     raises)
          /\ KeepAliveAtHead(Tail(main.ka_todo), ps, main.ka_now,
                             main.cycle_now, raises)
    /\ health_writer' = "loop"
    /\ UNCHANGED <<worker, printers, job_history, now, kill_now, running, failed_jobs, log_level,
                   outcomes, last_call>>

\* A join that returns as soon as one process_printer_jobs has ended.
GatherJoin_FirstCompleted ==
    /\ main.pc = "gather"
    /\ \E p \in Printers : fetch[p].pc \in {"done", "raised"}
    /\ fetch' = [p \in Printers |-> IdleFetch]
    /\ retry' = IdleRetry
    /\ main' = [main EXCEPT !.pc = "sleep"]
    /\ UNCHANGED <<cadence, worker, printers, job_history, now, kill_now, running, printer_status, failed_jobs,
                   stats, last_keep_alive_check, task, health_writer, log_level,
                   outcomes, last_call>>

\* A join that returns as soon as one task has raised, as asyncio.gather
\* does without return_exceptions.
GatherJoin_FirstException ==
    /\ main.pc = "gather"
    /\ \/ /\ \A p \in Printers : fetch[p].pc \in {"done", "raised"}
          /\ retry.pc \in {"done", "raised"}
       \/ \E p \in Printers : fetch[p].pc = "raised"
    /\ fetch' = [p \in Printers |-> IdleFetch]
    /\ retry' = IdleRetry
    /\ main' = [main EXCEPT !.pc = "sleep"]
    /\ UNCHANGED <<cadence, worker, printers, job_history, now, kill_now, running, printer_status, failed_jobs,
                   stats, last_keep_alive_check, task, health_writer, log_level,
                   outcomes, last_call>>

\* asyncio.gather(*tasks, return_exceptions=True) returns once every task
\* has returned or raised; then `await asyncio.sleep(self.check_interval)`.
GatherJoin ==
    /\ main.pc = "gather"
    /\ \A p \in Printers : fetch[p].pc \in {"done", "raised"}
    /\ retry.pc \in {"done", "raised"}
    /\ fetch' = [p \in Printers |-> IdleFetch]
    /\ retry' = IdleRetry
    /\ main' = [main EXCEPT !.pc = "sleep"]
    /\ UNCHANGED <<cadence, worker, printers, job_history, now, kill_now, running, printer_status, failed_jobs,
                   stats, last_keep_alive_check, task, health_writer, log_level,
                   outcomes, last_call>>

\* asyncio.sleep returns (after a cycle, or after the cooldown that follows
\* an exception) and the loop goes back to its test.
Wake ==
    /\ main.pc \in {"sleep", "cooldown"}
    /\ main' = [main EXCEPT !.pc = "loop"]
    /\ UNCHANGED <<cadence, worker, printers, job_history, now, kill_now, running, printer_status, failed_jobs,
                   stats, last_keep_alive_check, fetch, retry, task,
                   health_writer, log_level, outcomes, last_call>>

\* run(): the finally block, self.running = False and
\* self.print_executor.shutdown(wait=True).
Exit ==
    /\ main.pc = "exit"
    /\ \A c \in Coroutines : task[c].state # "running"
    /\ running' = FALSE
    /\ main' = [main EXCEPT !.pc = "closed"]
    /\ UNCHANGED <<cadence, worker, printers, job_history, now, kill_now, printer_status, failed_jobs, stats,
                   last_keep_alive_check, fetch, retry, task, health_writer,
                   log_level, outcomes, last_call>>

----------------------------------------------------------------------------
(* Spec: the dispatcher with one printer *)

\* Most failed dispatches, successful dispatches and keep-alive probes of
\* either outcome that a behaviour of Spec holds.
MaxFailed == 3
MaxProcessed == 1
MaxKeepAlives == 1

\* Most cycles of main_loop in a behaviour of Spec.
MaxCycles == 3

Budget == [jobs_processed     |-> MaxProcessed,
           jobs_failed        |-> MaxFailed,
           keep_alives_sent   |-> MaxKeepAlives,
           keep_alives_failed |-> MaxKeepAlives,
           total_errors       |-> 0,
           cycles             |-> MaxCycles]

\* The delay of a new entry: retry_intervals[min(0 - 1, 4)], the last
\* interval.
FirstDelay == DelaySeconds(NewFailedJobAttempts)

\* The instants at which the clock is read, besides 0: the entry of a job
\* that failed at 0 is due FirstDelay seconds later.
Instants == {FirstDelay}

InitDispatcher == InitCommon /\ log_level = "INFO"

\* The ways a print runs in Spec: it succeeds at once, or its last attempt
\* finds no connection or fails to render.
RunsDispatcher == {r \in PrintRuns : r.last \in {"noconn", "fail"}
                                      \/ (r.last = "ok" /\ r.attempts = 1)}

\* The job lists the job source returns in Spec: up to MaxBatch jobs of the
\* printer, each with an id, in ascending order of id.
BatchesDispatcher(p) ==
    {jobs \in Batches(p) : /\ \A i \in 1..Len(jobs) : jobs[i] # NoJob
                           /\ \A i \in 1..(Len(jobs) - 1) : jobs[i] < jobs[i + 1]}

Next ==
    \/ LoadConfig("ok", OnePrinter)
    \/ Run
    \/ LoopTest(FALSE, Budget)
    \/ KeepAliveStart(FALSE, Budget)
    \/ KeepAliveDone(FALSE, Budget)
    \/ GatherJoin
    \/ Wake
    \/ Exit
    \/ Kill
    \/ \E t \in Instants : Tick(t)
    \/ \E success \in BOOLEAN : KeepAliveProbe(success, Budget)
    \/ \E c \in PrintingCoroutines, run \in RunsDispatcher : PrintJobSync(c, run, Budget)
    \/ \E c \in PrintingCoroutines : WorkerStep(c)
    \/ \E p \in Printers : \E batch \in BatchesDispatcher(p) :
           FetchReturn(p, batch, FALSE, Budget)
    \/ \E p \in Printers : FetchPrinted(p)
    \/ \E p \in Printers : FetchReported(p, FALSE, Budget)
    \/ \E p \in Printers : FetchStart(p)
    \/ RetryStart
    \/ RetryPrinted
    \/ RetryReported(FALSE, Budget)

Spec == InitDispatcher /\ [][Next]_vars

\* A print call of coroutine c is running on a worker thread.
Printing(c) == task[c].state = "running" /\ task[c].kind = "print"

\* C2: in every reachable state of the dispatcher, whatever the
\* interleaving of the fetch-and-print coroutines with retry processing,
\* the retry queue holds at most max_failed_jobs entries.
C2_QueueWithinCapacity == Len(failed_jobs) <= max_failed_jobs

\* The queue is full, a retry print is in flight and a fetch-and-print
\* coroutine is about to enqueue a job id that is not in the queue.
C2_Witness ==
    /\ Len(failed_jobs) = max_failed_jobs
    /\ Printing("retry")
    /\ \E p \in Printers : /\ fetch[p].pc = "report_error"
                           /\ ~Has(failed_jobs, fetch[p].job)

\* C4: no two print operations run on worker threads against the same
\* printer at the same time.
C4_PrintsSerializedPerPrinter ==
    \A c1, c2 \in Coroutines :
        (c1 # c2 /\ Printing(c1) /\ Printing(c2))
            => task[c1].printer # task[c2].printer

\* C5: no worker thread writes a field of a PrinterStatus record; the
\* records are written on the loop thread only.
C5_HealthWrittenOnLoopOnly == health_writer # "worker"

\* The step is the one in which process_printer_jobs(p) resumes after its
\* 'done' report.
FetchPurgeStep(p) == fetch[p].pc = "report_done" /\ fetch'[p].pc # "report_done"

\* The step is the one in which process_retry_queue resumes after its
\* 'done' report.
RetryPurgeStep == retry.pc = "report_done" /\ retry'.pc # "report_done"

\* C9: once the dispatch step of a successful print of a job id completes
\* (in process_printer_jobs or in process_retry_queue), the retry queue has
\* no entry for that job id.
C9_SuccessPurgesEntry ==
    [][/\ \A p \in Printers :
              FetchPurgeStep(p) => ~Has(failed_jobs', fetch[p].job)
       /\ RetryPurgeStep => ~Has(failed_jobs', retry.cur.job_id)]_vars

\* process_retry_queue holds the entry of a job that failed once, and the
\* entry has left the queue because a re-fetched copy of the job printed.
C9_Witness ==
    /\ retry.pc = "printing"
    /\ ~retry.cur.live
    /\ ~Has(failed_jobs, retry.cur.job_id)
    /\ job_history[retry.cur.job_id] = NoHistory
    /\ stats.jobs_processed = 1

\* The step is the one in which process_retry_queue resumes after the print
\* it awaited.
RetryResumeStep ==
    /\ retry.pc = "printing"
    /\ task["retry"].state = "done"
    /\ task'["retry"].state # "done"

\* The step is a failed retry of a job below the ceiling or a failed
\* fetch-and-print dispatch: the steps that call add_to_retry_queue.
EnqueueStep ==
    \/ \E p \in Printers : fetch[p].pc = "report_error" /\ fetch'[p].pc # "report_error"
    \/ /\ RetryResumeStep
       /\ ~task["retry"].result
       /\ RefAttempts(retry.cur, failed_jobs) < GiveUpCeiling

\* The step is a failed retry of job_id at the attempt ceiling.
GiveUpStep(job_id) ==
    /\ RetryResumeStep
    /\ retry.cur.job_id = job_id
    /\ ~task["retry"].result
    /\ RefAttempts(retry.cur, failed_jobs) >= GiveUpCeiling

\* C10: a job id leaves the retry queue only in the step that completes a
\* successful print of it, in an enqueue made at capacity, or in a failed
\* retry of it at the attempt ceiling.
C10_RemovalCauses ==
    [][\A j \in JobIdsIn(failed_jobs) \ JobIdsIn(failed_jobs') :
          \/ \E p \in Printers : FetchPurgeStep(p) /\ fetch[p].job = j
          \/ RetryPurgeStep /\ retry.cur.job_id = j
          \/ EnqueueStep /\ Len(failed_jobs) >= max_failed_jobs
          \/ GiveUpStep(j)]_vars

\* A job that failed and was enqueued has left the full queue although
\* nothing has printed: an enqueue at capacity evicted it.
C10_Witness ==
    /\ stats.jobs_processed = 0
    /\ SuccessesInFlight = 0
    /\ Len(failed_jobs) = max_failed_jobs
    /\ \E j \in JobIds : job_history[j].failed >= 1 /\ ~Has(failed_jobs, j)


\* The print call of coroutine c has returned failure after its three local
\* attempts, and the coroutine has not resumed yet.
DispatchFailed(c) ==
    /\ task[c].state = "done"
    /\ task[c].kind = "print"
    /\ ~task[c].result
    /\ task[c].attempt = max_attempts

\* C14: after the three local attempts of one dispatch have failed on a
\* printer, the printer is unhealthy.
C14_UnhealthyAfterThreeAttempts ==
    \A c \in Coroutines :
        DispatchFailed(c) => ~printer_status[task[c].printer].is_healthy

\* The step is the one in which the last attempt of the print call of
\* coroutine c meets a failure.
PrintFailsStep(c) == worker[c].pc = "idle" /\ worker'[c].pc \in FailPcs

\* The step is the write of `status.consecutive_failures += 1` by the worker
\* thread of coroutine c.
StreakWriteStep(c) == worker[c].pc = "cf_store" /\ worker'[c].pc # "cf_store"

\* The step is the one in which perform_keep_alive applies a failed probe.
ProbeFailedStep ==
    /\ main.pc = "ka_wait"
    /\ task["main"].state = "done"
    /\ ~task["main"].result
    /\ task'["main"] # task["main"]

\* C15: every print dispatch that fails after its local attempts, whatever
\* the cause, and every failed keep-alive probe adds one failure to the
\* streak of its printer: the dispatch reads the streak when its last
\* attempt has failed and writes it back one higher.
C15_EveryFailureRecorded ==
    [][/\ \A c \in PrintingCoroutines :
              /\ PrintFailsStep(c) =>
                    /\ worker'[c].pc = "cf_store"
                    /\ worker'[c].reg
                          = printer_status[task[c].printer].consecutive_failures
              /\ StreakWriteStep(c) =>
                    printer_status'[worker[c].token].consecutive_failures
                        = worker[c].reg + 1
       /\ ProbeFailedStep =>
              printer_status'[task["main"].printer].consecutive_failures
                  = printer_status[task["main"].printer].consecutive_failures + 1]_vars

----------------------------------------------------------------------------
(* SpecHealth: update_printer_status called with any sequence of outcomes *)

\* Longest sequence of outcomes recorded.
MaxOutcomes == 5

\* update_printer_status(token, success, error_msg), called on its own.
RecordOutcome(token, success) ==
    /\ main.pc = "start"
    /\ Len(outcomes) < MaxOutcomes
    /\ printer_status' = StatusAfterUpdate(printer_status, token, success, "error")
    /\ stats' = StatsAfterUpdate(stats, printer_status, token, success)
    /\ outcomes' = Append(outcomes, [token |-> token, success |-> success])
    /\ UNCHANGED <<cadence, worker, printers, job_history, now, kill_now, running, failed_jobs, last_keep_alive_check,
                   main, fetch, retry, task, health_writer, log_level, last_call>>

InitHealth ==
    /\ InitCommon
    /\ log_level \in {"INFO", "WARNING"}

\* The configuration files of SpecHealth: what the file is, and up to
\* MaxEntries items, each one of p1 or p2 active, p1 inactive or an item that
\* is turned away.
MaxEntries == 3

FilesHealth == {"ok", "missing", "badjson", "nolist"}

EntriesHealth ==
    SeqsUpTo({Entry("p1", "active"), Entry("p2", "active"),
              Entry("p1", "inactive"), Bad}, MaxEntries)

NextHealth ==
    \/ \E file \in FilesHealth, entries \in EntriesHealth : LoadConfig(file, entries)
    \/ \E token \in Printers \cup {UnknownToken}, success \in BOOLEAN :
           RecordOutcome(token, success)

SpecHealth == InitHealth /\ [][NextHealth]_vars

\* Length of the run of failures that ends the outcomes recorded for `token`.
RECURSIVE TrailingFailures(_, _)
TrailingFailures(token, seq) ==
    IF seq = <<>> THEN 0
    ELSE LET last == seq[Len(seq)]
             rest == SubSeq(seq, 1, Len(seq) - 1)
         IN IF last.token # token THEN TrailingFailures(token, rest)
            ELSE IF last.success THEN 0
            ELSE 1 + TrailingFailures(token, rest)

\* C1: after every sequence of outcomes recorded one after another, a
\* printer is unhealthy exactly when the run of failures since its last
\* success (or since the start) is 3 or longer, and consecutive_failures is
\* the length of that run (0 and healthy right after a success).
C1_HealthyIffShortStreak ==
    \A p \in Printers :
        /\ printer_status[p].consecutive_failures = TrailingFailures(p, outcomes)
        /\ printer_status[p].is_healthy
             = (TrailingFailures(p, outcomes) < UnhealthyThreshold)

\* A printer went unhealthy after three failures and one success restored it.
C1_Witness ==
    \E p \in Printers :
        /\ Len(outcomes) >= 4
        /\ \A i \in 1..3 : outcomes[i] = [token |-> p, success |-> FALSE]
        /\ outcomes[4] = [token |-> p, success |-> TRUE]
        /\ Len(outcomes) = 4
        /\ printer_status[p].is_healthy
        /\ printer_status[p].consecutive_failures = 0


\* The step records a successful outcome for the registered printer p.
SuccessRecordedStep(p) ==
    outcomes' = Append(outcomes, [token |-> p, success |-> TRUE])

\* C16: a successful outcome recorded for a printer that was unhealthy adds
\* exactly 1 to connections_restored, and one recorded for a printer that
\* was healthy leaves the counter as it was.
C16_RestoredCountsRecoveries ==
    [][\A p \in Printers :
          SuccessRecordedStep(p) =>
              stats'.connections_restored
                  = stats.connections_restored
                    + (IF printer_status[p].is_healthy THEN 0 ELSE 1)]_vars

----------------------------------------------------------------------------
(* SpecQueue: the retry queue's operations called in any order *)

\* Longest sequence of calls made on the queue.
MaxCalls == 6

Called(op, job_id) ==
    last_call' = [op |-> op, job_id |-> job_id, before |-> failed_jobs,
                  n |-> last_call.n + 1]

\* add_to_retry_queue(job_id, token, job_data), called on its own.
QueueAdd(job_id, token) ==
    /\ main.pc = "start"
    /\ last_call.n < MaxCalls
    /\ failed_jobs' = add_to_retry_queue(failed_jobs, job_id, token, now)
    /\ Called("add", job_id)
    /\ UNCHANGED <<cadence, worker, printers, job_history, now, kill_now, running, printer_status, stats,
                   last_keep_alive_check, main, fetch, retry, task,
                   health_writer, log_level, outcomes>>

\* `del self.failed_jobs[job_id]` for an entry that is present.
QueueDel(job_id) ==
    /\ main.pc = "start"
    /\ last_call.n < MaxCalls
    /\ Has(failed_jobs, job_id)
    /\ failed_jobs' = DelEntry(failed_jobs, job_id)
    /\ Called("del", job_id)
    /\ UNCHANGED <<cadence, worker, printers, job_history, now, kill_now, running, printer_status, stats,
                   last_keep_alive_check, main, fetch, retry, task,
                   health_writer, log_level, outcomes>>

\* A second passes between two calls.
QueueTick ==
    /\ main.pc = "start"
    /\ last_call.n < MaxCalls
    /\ now' = now + 1
    /\ last_call' = [last_call EXCEPT !.op = "tick", !.n = @ + 1]
    /\ UNCHANGED <<cadence, worker, printers, job_history, kill_now, running, printer_status, failed_jobs, stats,
                   last_keep_alive_check, main, fetch, retry, task,
                   health_writer, log_level, outcomes>>

InitQueue == InitCommon /\ log_level = "INFO"

NextQueue ==
    \/ \E entries \in {TwoPrinters, <<Bad>> \o TwoPrinters} : LoadConfig("ok", entries)
    \/ \E job_id \in JobIds : QueueAdd(job_id, PrinterOf(job_id))
    \/ \E job_id \in JobIds : QueueDel(job_id)
    \/ QueueTick

SpecQueue == InitQueue /\ [][NextQueue]_vars

\* The last call was add_to_retry_queue for a job id that was not in the
\* queue, made while the queue held max_failed_jobs entries.
AddedNewAtCapacity ==
    /\ last_call.op = "add"
    /\ ~Has(last_call.before, last_call.job_id)
    /\ Len(last_call.before) = max_failed_jobs

\* C3: an enqueue of a job id that is not in the queue, made at capacity,
\* evicts exactly one entry, that entry has the smallest last_attempt, the
\* new job id is in the queue afterwards and the size is still
\* max_failed_jobs.
C3_EvictsOldestAtCapacity ==
    AddedNewAtCapacity =>
        LET before == last_call.before
            gone   == JobIdsIn(before) \ JobIdsIn(failed_jobs)
        IN /\ Cardinality(gone) = 1
           /\ \A g \in gone : \A i \in 1..Len(before) :
                  EntryOf(before, g).last_attempt <= before[i].last_attempt
           /\ Has(failed_jobs, last_call.job_id)
           /\ Len(failed_jobs) = max_failed_jobs
           /\ Cardinality(JobIdsIn(failed_jobs)) = max_failed_jobs

\* An enqueue at capacity evicted the strictly oldest entry and kept a
\* younger one.
C3_Witness ==
    /\ AddedNewAtCapacity
    /\ \E i, k \in 1..Len(last_call.before) :
          /\ last_call.before[i].last_attempt < last_call.before[k].last_attempt
          /\ ~Has(failed_jobs, last_call.before[i].job_id)
          /\ Has(failed_jobs, last_call.before[k].job_id)

\* The last call was add_to_retry_queue for a job id that was not in the
\* queue.
AddedNew ==
    /\ last_call.op = "add"
    /\ ~Has(last_call.before, last_call.job_id)

\* The last call was add_to_retry_queue for a job id that was in the queue.
AddedExisting ==
    /\ last_call.op = "add"
    /\ Has(last_call.before, last_call.job_id)

\* C11: add_to_retry_queue for a job id that is not in the queue creates an
\* entry with attempts = 1; for a job id that is in the queue it leaves an
\* entry whose attempts is one more than before.
C11_NewEntryCountsOne ==
    /\ AddedNew => EntryOf(failed_jobs, last_call.job_id).attempts = 1
    /\ AddedExisting =>
           EntryOf(failed_jobs, last_call.job_id).attempts
               = EntryOf(last_call.before, last_call.job_id).attempts + 1

\* C12: after the first enqueue of a job its next_retry is its last_attempt
\* plus the first delay of the backoff table (30 s).
C12_FirstDelayIsFirstInterval ==
    AddedNew =>
        LET e == EntryOf(failed_jobs, last_call.job_id)
        IN e.next_retry = e.last_attempt + retry_intervals[1]

\* The delay add_to_retry_queue gave entry e: next_retry and last_attempt are
\* set in the same call, from the same clock.
DelayOf(e) == e.next_retry - e.last_attempt

\* C13: the delay add_to_retry_queue computes is non-decreasing in the
\* attempt count of the entry, from the first enqueue onward, and never
\* exceeds the largest value of the table.
C13_BackoffMonotonicCapped ==
    /\ \A i, k \in 1..Len(failed_jobs) :
           failed_jobs[i].attempts <= failed_jobs[k].attempts
               => DelayOf(failed_jobs[i]) <= DelayOf(failed_jobs[k])
    /\ \A i \in 1..Len(failed_jobs) :
           DelayOf(failed_jobs[i]) <= retry_intervals[Len(retry_intervals)]

----------------------------------------------------------------------------
(* SpecCeiling: one printer, one job that the job source keeps serving *)

\* Most failed dispatches in a behaviour of SpecCeiling: the six that take
\* an entry to the attempt ceiling and one retry at the ceiling.
MaxFailedCeiling == 7

\* Most cycles of main_loop in a behaviour of SpecCeiling.
MaxCeilingCycles == 8

BudgetCeiling == [Budget EXCEPT !.jobs_failed = MaxFailedCeiling,
                                !.cycles = MaxCeilingCycles]

\* The job the job source serves.
TheJob == 1

\* The ways a print runs: it succeeds at one of its attempts, or its last
\* attempt fails to render or raises.
RunsCeiling == {r \in PrintRuns : r.last \in {"ok", "fail", "exc"}}

NextCeiling ==
    \/ \E entries \in {OnePrinter, <<Bad>> \o OnePrinter} : LoadConfig("ok", entries)
    \/ Run
    \/ LoopTest(FALSE, BudgetCeiling)
    \/ KeepAliveStart(FALSE, BudgetCeiling)
    \/ KeepAliveDone(FALSE, BudgetCeiling)
    \/ GatherJoin
    \/ Wake
    \/ Exit
    \/ Kill
    \/ \E t \in Instants : Tick(t)
    \/ \E success \in BOOLEAN : KeepAliveProbe(success, BudgetCeiling)
    \/ \E c \in PrintingCoroutines, run \in RunsCeiling : PrintJobSync(c, run, BudgetCeiling)
    \/ \E c \in PrintingCoroutines : WorkerStep(c)
    \/ \E p \in Printers : \E batch \in {<<>>, <<TheJob>>} :
           FetchReturn(p, batch, FALSE, BudgetCeiling)
    \/ \E p \in Printers : FetchPrinted(p)
    \/ \E p \in Printers : FetchReported(p, FALSE, BudgetCeiling)
    \/ \E p \in Printers : FetchStart(p)
    \/ RetryStart
    \/ RetryPrinted
    \/ RetryReported(FALSE, BudgetCeiling)

SpecCeiling == InitDispatcher /\ [][NextCeiling]_vars

\* C7: a job that has failed 5 dispatches in total, the first
\* fetch-and-print dispatch included, is out of the retry queue once the
\* fifth failure has been handled: that failure is its give-up.
C7_RemovedAtFifthFailure ==
    \A j \in JobIds :
        job_history[j].failed >= GiveUpCeiling => ~Has(failed_jobs, j)

\* C8: every failed retry of an entry that has reached the attempt ceiling
\* removes the entry and starts the 'error' report for its job id in the
\* same step, also when the entry left the queue while the print was in
\* flight.
C8_GiveUpReportsError ==
    [][\A j \in JobIds :
          GiveUpStep(j) => retry'.pc = "report_giveup" /\ ~Has(failed_jobs', j)]_vars

----------------------------------------------------------------------------
(* SpecThrash: a full queue of jobs whose every print fails *)

\* The retry cycles of a behaviour of SpecThrash: one more than the failed
\* retries that take an entry to the attempt ceiling.
MaxThrashCycles == 6

\* The instants at which the cycles after the first start.
InstantsThrash == {FirstDelay * k : k \in 1..MaxThrashCycles}

\* The job source serves jobs 1..max_failed_jobs in one list, once or more.
FullBatch == [i \in 1..max_failed_jobs |-> i]

\* Failed dispatches in a behaviour of SpecThrash: every job of the list
\* fails once when it is fetched and once in every retry cycle.
BudgetThrash ==
    [jobs_processed     |-> 0,
     jobs_failed        |-> max_failed_jobs * (MaxThrashCycles + 1),
     keep_alives_sent   |-> MaxThrashCycles,
     keep_alives_failed |-> 0,
     total_errors       |-> 0,
     cycles             |-> MaxThrashCycles + 1]

\* Every print ends without a connection at its last attempt.
RunsThrash == {r \in PrintRuns : r.last = "noconn"}

\* The awaits of a cycle return at once and FirstDelay seconds pass while
\* main_loop sleeps: every cycle starts when the entries enqueued in the
\* cycle before are due.
SleepTick ==
    /\ main.pc = "sleep"
    /\ now + FirstDelay \in InstantsThrash
    /\ Tick(now + FirstDelay)

\* The loop keeps running: no shutdown signal arrives.
NextThrash ==
    \/ LoadConfig("ok", OnePrinter)
    \/ Run
    \/ LoopTest(FALSE, BudgetThrash)
    \/ KeepAliveStart(FALSE, BudgetThrash)
    \/ KeepAliveDone(FALSE, BudgetThrash)
    \/ GatherJoin
    \/ Wake
    \/ SleepTick
    \/ KeepAliveProbe(TRUE, BudgetThrash)
    \/ \E c \in PrintingCoroutines, run \in RunsThrash : PrintJobSync(c, run, BudgetThrash)
    \/ \E c \in PrintingCoroutines : WorkerStep(c)
    \/ \E p \in Printers : \E batch \in {<<>>, FullBatch} :
           FetchReturn(p, batch, FALSE, BudgetThrash)
    \/ \E p \in Printers : FetchPrinted(p)
    \/ \E p \in Printers : FetchReported(p, FALSE, BudgetThrash)
    \/ \E p \in Printers : FetchStart(p)
    \/ RetryStart
    \/ RetryPrinted
    \/ RetryReported(FALSE, BudgetThrash)

SpecThrash == InitDispatcher /\ [][NextThrash]_vars

\* C6: a job whose every print fails is retried a bounded number of times,
\* whatever the occupancy of the queue: after the GiveUpCeiling failed
\* retries that take its attempts to the ceiling, the next failed retry
\* gives it up, so no job has more failed retries below the ceiling on
\* record.
C6_RetriesBounded ==
    \A j \in JobIds : job_history[j].failed_retries <= GiveUpCeiling

----------------------------------------------------------------------------
(* SpecFleet: two printers, with the faults of the job source and of a cycle *)

MaxFleetProcessed == 2
MaxFleetFailed == 1
MaxFleetProbes == 2
MaxFleetProbesFailed == 1
MaxFleetErrors == 1

\* Most cycles of main_loop in a behaviour of SpecFleet.
MaxFleetCycles == 3

BudgetFleet == [jobs_processed     |-> MaxFleetProcessed,
                jobs_failed        |-> MaxFleetFailed,
                keep_alives_sent   |-> MaxFleetProbes,
                keep_alives_failed |-> MaxFleetProbesFailed,
                total_errors       |-> MaxFleetErrors,
                cycles             |-> MaxFleetCycles]

\* The instants at which the clock is read, besides 0: at FleetFirstCheck
\* every printer has been idle for more than its keep_alive_interval; at
\* FleetSecondCheck a printer that printed or was probed at FleetFirstCheck
\* has been idle for exactly its interval, and the entry of a job that
\* failed at 0 is due.
FleetFirstCheck == printer_keep_alive_interval + 1

FleetSecondCheck == FleetFirstCheck + printer_keep_alive_interval

InstantsFleet == {FleetFirstCheck, FleetSecondCheck}

\* The job lists get_jobs_from_odoo returns here: at most one job, or one
\* item that is not a dict.
BatchesFleet(p) == SeqsUpTo(IdsServedTo(p), 1) \cup {<<NotADict>>}

\* The calls of print_job_sync here use all their attempts.
RunsFleet == {r \in PrintRuns : r.attempts = max_attempts /\ r.last \in {"ok", "fail"}}

InitFleet == InitCommon /\ log_level = "INFO"

NextFleet ==
    \/ LoadConfig("ok", TwoPrinters)
    \/ Run
    \/ LoopTest(FALSE, BudgetFleet)
    \/ KeepAliveStart(FALSE, BudgetFleet)
    \/ KeepAliveDone(FALSE, BudgetFleet)
    \/ GatherJoin
    \/ Wake
    \/ Exit
    \/ Kill
    \/ \E t \in InstantsFleet : Tick(t)
    \/ \E success \in BOOLEAN : KeepAliveProbe(success, BudgetFleet)
    \/ \E c \in PrintingCoroutines, run \in RunsFleet : PrintJobSync(c, run, BudgetFleet)
    \/ \E c \in PrintingCoroutines : WorkerStep(c)
    \/ \E p \in Printers : \E batch \in BatchesFleet(p), raised \in BOOLEAN :
           FetchReturn(p, batch, raised, BudgetFleet)
    \/ \E p \in Printers : FetchPrinted(p)
    \/ \E p \in Printers : FetchReported(p, FALSE, BudgetFleet)
    \/ \E p \in Printers : FetchStart(p)
    \/ RetryStart
    \/ RetryPrinted
    \/ RetryReported(FALSE, BudgetFleet)

SpecFleet == InitFleet /\ [][NextFleet]_vars

\* A step of perform_keep_alive that visits printers: the one that opens a
\* check, or the one that resumes it after a probe.
CheckStep ==
    /\ main' # main
    /\ main.pc \in {"ka_start", "ka_wait"}

\* The `now` of the check that a CheckStep belongs to.
CheckTime == IF main.pc = "ka_start" THEN now ELSE main.ka_now

\* The printers a CheckStep has still to visit, and those it leaves to visit
\* after the probe it issued, if it issued one.
CheckTodo == IF main.pc = "ka_start" THEN printers ELSE Tail(main.ka_todo)

CheckLeft == IF main'.pc = "ka_wait" THEN Tail(main'.ka_todo) ELSE <<>>

\* The step issues a probe to printer p.
ProbeIssued(p) ==
    /\ CheckStep
    /\ main'.pc = "ka_wait"
    /\ task'["main"].state = "running"
    /\ task'["main"].kind = "keepalive"
    /\ task'["main"].printer = p

\* The seconds from the last activity the client recorded for printer p to t,
\* after the step.
IdleSince(p, t) ==
    LET k == printer_status'[p].last_keep_alive
        j == printer_status'[p].last_job_printed
    IN t - (IF k > j THEN k ELSE j)

\* C17: a step of a keep-alive check visits the printers it has left in
\* order; it issues a probe to the first of them whose time since
\* max(last_keep_alive, last_job_printed), at the time of the check, exceeds
\* the printer's keep_alive_interval, and to none of those before it, whose
\* time does not; so at the moment a probe is issued (the time of the check
\* or later) the printer has been idle for more than its interval.
C17_ProbeIffIdleBeyondInterval ==
    [][CheckStep =>
          LET visited == Len(CheckTodo) - Len(CheckLeft)
          IN /\ visited \in 0..Len(CheckTodo)
             /\ \A i \in 1..visited :
                   LET p == CheckTodo[i] IN
                   /\ ProbeIssued(p)
                         <=> IdleSince(p, CheckTime) > printer_keep_alive_interval
                   /\ ProbeIssued(p) <=> (i = visited /\ main'.pc = "ka_wait")
                   /\ ProbeIssued(p)
                         => IdleSince(p, now') > printer_keep_alive_interval
             /\ \A p \in Printers :
                   ProbeIssued(p) => visited >= 1 /\ CheckTodo[visited] = p]_vars

\* A check probes the second printer after it passed over the first, which
\* had been idle for exactly its interval.
C17_Witness ==
    /\ main.pc = "ka_wait"
    /\ main.ka_todo = <<"p2">>
    /\ task["main"].state = "running"
    /\ task["main"].printer = "p2"
    /\ main.ka_now - printer_status["p1"].last_job_printed
           = printer_keep_alive_interval
    /\ printer_status["p1"].last_keep_alive < printer_status["p1"].last_job_printed

\* A worker thread runs the keep-alive probe of printer p.
Probing(p) ==
    /\ task["main"].state = "running"
    /\ task["main"].kind = "keepalive"
    /\ task["main"].printer = p

\* A worker thread runs print_job_sync for printer p.
PrintingOn(p) ==
    \E c \in Coroutines :
        /\ task[c].state = "running"
        /\ task[c].kind = "print"
        /\ task[c].printer = p

\* C18: at no time does a worker thread run the keep-alive probe of a
\* printer while a worker thread runs a print on the same printer.
C18_ProbeNeverOverlapsPrint ==
    \A p \in Printers : ~(Probing(p) /\ PrintingOn(p))

\* The probe of a printer runs in a cycle after those in which a job was
\* printed and a job of that printer failed and was queued.
C18_Witness ==
    \E p \in Printers :
        /\ Probing(p)
        /\ stats.jobs_processed > 0
        /\ \E i \in 1..Len(failed_jobs) : failed_jobs[i].printer_token = p

\* The process_printer_jobs of printer p ends without having taken a job:
\* get_jobs_from_odoo returned [] (a status other than 200, 401 among them,
\* a timeout, or an exception it caught), or the coroutine raised.
FetchFailsStep(p) ==
    /\ fetch[p].pc = "fetching"
    /\ fetch'[p].pc \in {"done", "raised"}

\* The cycle's tasks other than the process_printer_jobs of printer p are
\* where they were, and main_loop still awaits asyncio.gather.
OthersUntouched(p) ==
    /\ main' = main
    /\ retry' = retry
    /\ task'["retry"] = task["retry"]
    /\ \A q \in Printers \ {p} : fetch'[q] = fetch[q] /\ task'[q] = task[q]

\* asyncio.gather returns to main_loop.
JoinStep == main.pc = "gather" /\ main'.pc # "gather"

\* Every task of the cycle has ended by itself.
AllTasksEnded ==
    /\ \A q \in Printers : fetch[q].pc \in {"done", "raised"}
    /\ retry.pc \in {"done", "raised"}

\* C19: the step in which one printer's fetch-and-print fails (its job list
\* is empty after a timeout, an HTTP error or an exception, or the task
\* raises) leaves the tasks of the other printers and the retry processing
\* as they were, and the cycle ends, by going to sleep, only once every task
\* of the cycle has ended by itself.
C19_FetchFailureIsolated ==
    [][/\ \A p \in Printers : FetchFailsStep(p) => OthersUntouched(p)
       /\ JoinStep => AllTasksEnded /\ main'.pc = "sleep"]_vars

\* In one cycle the task of p1 has raised, that of p2 has printed a job and
\* reports it, and the retry processing has printed a queued job and
\* reports it.
C19_Witness ==
    /\ main.pc = "gather"
    /\ fetch["p1"].pc = "raised"
    /\ fetch["p2"].pc = "report_done"
    /\ retry.pc = "report_done"

----------------------------------------------------------------------------
(* A cycle that raises (SpecCooldown) *)

\* Most cycles of main_loop in a behaviour of SpecCooldown: export_status,
\* the call that raises here, is first made in the cycle numbered
\* ExportEvery.
MaxCooldownCycles == ExportEvery + 2

\* Most cycles that raise, and most keep-alive probes of either outcome.
MaxCooldownErrors == 2
MaxCooldownProbes == 1

BudgetCooldown == [jobs_processed     |-> 0,
                   jobs_failed        |-> 0,
                   keep_alives_sent   |-> MaxCooldownProbes,
                   keep_alives_failed |-> MaxCooldownProbes,
                   total_errors       |-> MaxCooldownErrors,
                   cycles             |-> MaxCooldownCycles]

\* One printer; the job source has no job; the clock as in SpecFleet.
NextCooldown ==
    \/ LoadConfig("ok", OnePrinter)
    \/ Run
    \/ \E raises \in BOOLEAN : LoopTest(raises, BudgetCooldown)
    \/ \E raises \in BOOLEAN : KeepAliveStart(raises, BudgetCooldown)
    \/ \E raises \in BOOLEAN : KeepAliveDone(raises, BudgetCooldown)
    \/ GatherJoin
    \/ Wake
    \/ Exit
    \/ Kill
    \/ \E t \in InstantsFleet : Tick(t)
    \/ \E success \in BOOLEAN : KeepAliveProbe(success, BudgetCooldown)
    \/ \E p \in Printers : FetchReturn(p, <<>>, FALSE, BudgetCooldown)
    \/ \E p \in Printers : FetchStart(p)
    \/ RetryStart

SpecCooldown == InitFleet /\ [][NextCooldown]_vars

\* main_loop is scheduled: a sleep that has started returns, and the loop
\* test is then made.
SpecCooldownFair ==
    /\ SpecCooldown
    /\ WF_vars(Wake)
    /\ WF_vars(\E raises \in BOOLEAN : LoopTest(raises, BudgetCooldown))

\* A cycle raises: `except Exception` is entered.
CycleRaisedStep == main.pc \in {"loop", "ka_start", "ka_wait"} /\ main'.pc = "cooldown"

\* main_loop is in a cycle: in perform_keep_alive or awaiting the tasks.
InCycle == main.pc \in {"ka_start", "ka_wait", "gather"}

\* The errors update_printer_status counts in the step: one for a printer
\* that the step marks unhealthy.
DegradedInStep ==
    Cardinality({p \in Printers :
                    printer_status[p].is_healthy /\ ~printer_status'[p].is_healthy})

\* C20: when a cycle raises, the error is counted (total_errors grows by
\* one more than by what the step counts otherwise) and the loop sleeps; the
\* sleep leads back to the loop test only, the loop test starts a cycle
\* whenever the shutdown signal is not set, and the loop ends only at a
\* loop test that finds the signal set; so after the cooldown another cycle
\* begins unless the shutdown signal is set.
C20_LoopSurvivesCycleError ==
    /\ [][/\ CycleRaisedStep =>
                stats'.total_errors = stats.total_errors + DegradedInStep + 1
          /\ main.pc = "cooldown" /\ main' # main => main'.pc = "loop"
          /\ main.pc = "loop" /\ main' # main =>
                IF LoopGoesOn THEN main'.pc \in {"ka_start", "gather", "cooldown"}
                ELSE main'.pc = "exit"
          /\ main'.pc = "exit" /\ main.pc # "exit" =>
                main.pc = "loop" /\ ~LoopGoesOn]_vars
    /\ (main.pc = "cooldown") ~> (InCycle \/ kill_now)

\* A cycle raised after its keep-alive check had probed a printer: the
\* error is counted and the loop sleeps, no shutdown signal being set.
C20_Witness ==
    /\ main.pc = "cooldown"
    /\ stats.total_errors = 1
    /\ stats.keep_alives_sent > 0
    /\ last_keep_alive_check = now
    /\ cadence.iteration = ExportEvery
    /\ cadence.status_export_counter = ExportEvery
    /\ running
    /\ ~kill_now

----------------------------------------------------------------------------
(* Shutdown *)

\* The tasks that print: the process_printer_jobs of each printer and
\* process_retry_queue.
PrintingTasks == Printers \cup {"retry"}

\* C21: no process_printer_jobs and no process_retry_queue calls
\* run_in_executor for a print once the shutdown signal is set: a step that
\* submits a print is not taken with the flag set and does not end with it
\* set (the handler that runs inside such a step runs before the call, and
\* the step ends at the await of the call); and a call that is running in
\* the pool when the flag is set stays running or completes: it is not
\* withdrawn.
C21_NoPrintSubmittedAfterSignal ==
    [][\A c \in PrintingTasks :
          /\ PrintSubmitted(c) => ~kill_now /\ ~kill_now'
          /\ kill_now /\ task[c].state = "running" =>
                \/ task'[c] = task[c]
                \/ task'[c].state = "done" /\ task'[c].job = task[c].job]_vars

\* SpecDrain: the fleet after a shutdown signal.  The calls that are in the
\* pool when the signal is set return whatever the counters say: a counter
\* bounds the calls made before the signal only.
DrainMargin == Cardinality(Coroutines)

MaxDrainCalls == 1

\* Most cycles of main_loop in a behaviour of SpecDrain.
MaxDrainCycles == 3

BudgetDrain ==
    [jobs_processed     |-> MaxDrainCalls + (IF kill_now THEN DrainMargin ELSE 0),
     jobs_failed        |-> MaxDrainCalls + (IF kill_now THEN DrainMargin ELSE 0),
     keep_alives_sent   |-> MaxDrainCalls + (IF kill_now THEN DrainMargin ELSE 0),
     keep_alives_failed |-> MaxDrainCalls + (IF kill_now THEN DrainMargin ELSE 0),
     total_errors       |-> 0,
     cycles             |-> MaxDrainCycles]

\* The clock is read at 0 and at an instant at which the keep-alive check
\* and the entry of a job that failed at 0 are due.
InstantsDrain == {FleetSecondCheck}

\* The calls of print_job_sync here print at the last attempt or end it
\* without a connection.
RunsDrain == {r \in PrintRuns : r.attempts = max_attempts /\ r.last \in {"ok", "noconn"}}

\* The steps of the client: those of the loop thread, of the worker
\* threads and of the job source's replies.
StepDrain ==
    \/ LoadConfig("ok", TwoPrinters)
    \/ Run
    \/ LoopTest(FALSE, BudgetDrain)
    \/ KeepAliveStart(FALSE, BudgetDrain)
    \/ KeepAliveDone(FALSE, BudgetDrain)
    \/ GatherJoin
    \/ Wake
    \/ Exit
    \/ \E success \in BOOLEAN : KeepAliveProbe(success, BudgetDrain)
    \/ \E c \in PrintingCoroutines, run \in RunsDrain : PrintJobSync(c, run, BudgetDrain)
    \/ \E c \in PrintingCoroutines : WorkerStep(c)
    \/ \E p \in Printers : \E batch \in BatchesFleet(p) :
           FetchReturn(p, batch, FALSE, BudgetDrain)
    \/ \E p \in Printers : FetchPrinted(p)
    \/ \E p \in Printers : FetchReported(p, FALSE, BudgetDrain)
    \/ \E p \in Printers : FetchStart(p)
    \/ RetryStart
    \/ RetryPrinted
    \/ RetryReported(FALSE, BudgetDrain)

NextDrain ==
    \/ StepDrain
    \/ Kill
    \/ \E t \in InstantsDrain : Tick(t)

\* Every sleep, every call in the pool and every call of the job source
\* returns, and the loop thread runs whatever is ready.
SpecDrain == InitFleet /\ [][NextDrain]_vars /\ WF_vars(StepDrain)

\* run() has returned.
Closed == main.pc = "closed"

\* A call is running in the pool.
PoolBusy == \E c \in Coroutines : task[c].state = "running"

\* C22: once the shutdown signal is set, every call in the pool and every
\* call of the job source returning, run() eventually returns; and whenever
\* run() has returned no call is running in the pool.
C22_ShutdownDrainsAndTerminates ==
    /\ kill_now ~> Closed
    /\ [](Closed => ~PoolBusy)

\* run() has returned after a signal that was set while two prints were in
\* the pool: both were counted after the signal.
C22_Witness ==
    /\ Closed
    /\ kill_now
    /\ stats.jobs_processed + stats.jobs_failed > MaxDrainCalls + MaxDrainCalls

----------------------------------------------------------------------------
(* update_printer_status on its own, continued (SpecHealth) *)

\* The step is a call update_printer_status(token, success, ...).
Recorded(token, success) ==
    /\ Len(outcomes') = Len(outcomes) + 1
    /\ outcomes'[Len(outcomes')] = [token |-> token, success |-> success]

\* C23: a call of update_printer_status with a token that has no health
\* record leaves every health record and every aggregate counter as it was.
C23_UnknownTokenChangesNothing ==
    [][\A success \in BOOLEAN :
          Recorded(UnknownToken, success) /\ UnknownToken \notin DOMAIN printer_status
              => printer_status' = printer_status /\ stats' = stats]_vars

\* A call with an unknown token has just been made with a failure, while a
\* printer is one failure from its threshold.
C23_Witness ==
    /\ outcomes # <<>>
    /\ outcomes[Len(outcomes)] = [token |-> UnknownToken, success |-> FALSE]
    /\ UnknownToken \notin DOMAIN printer_status
    /\ \E p \in Printers :
           printer_status[p].consecutive_failures = UnhealthyThreshold - 1

----------------------------------------------------------------------------
(* SpecRace: the worker threads inside the end of print_job_sync *)

\* The calls of print_job_sync that coroutines have in the pool at once run
\* on different worker threads.  Here every coroutine that prints submits
\* calls for any printer, one at a time and at most MaxRaceCalls of them,
\* and the threads run them in any interleaving.
MaxRaceCalls == 2

\* Failed calls the race specification lets the coroutines make.
MaxRaceFailed == 4

BudgetRace == [Budget EXCEPT !.jobs_processed = MaxRaceCalls,
                             !.jobs_failed = MaxRaceFailed]

InitRace == InitCommon /\ log_level = "INFO"

\* The printers coroutine c prints on: its own for process_printer_jobs,
\* that of the entry for process_retry_queue.
PrintersOf(c) == IF c \in Printers THEN {c} ELSE Printers

\* loop.run_in_executor(self.print_executor, self.print_job_sync, ...) by
\* coroutine c for printer `token`, the call before it having returned.
RaceStart(c, token) ==
    /\ main.pc = "start"
    /\ task[c].state # "running"
    /\ worker[c].calls < MaxRaceCalls
    /\ token \in PrintersOf(c)
    /\ task' = [task EXCEPT ![c] = Submitted("print", token, NoJob)]
    /\ worker' = [worker EXCEPT ![c].calls = @ + 1]
    /\ UNCHANGED <<cadence, printers, now, kill_now, running, printer_status, failed_jobs,
                   stats, last_keep_alive_check, main, fetch, retry, health_writer,
                   log_level, job_history, outcomes, last_call>>

\* The calls here use all their attempts.
RunsRace == {r \in PrintRuns : r.attempts = max_attempts /\ r.last \in {"ok", "noconn", "fail"}}

NextRace ==
    \/ LoadConfig("ok", TwoPrinters)
    \/ \E c \in PrintingCoroutines, token \in Printers : RaceStart(c, token)
    \/ \E c \in PrintingCoroutines, run \in RunsRace : PrintJobSync(c, run, BudgetRace)
    \/ \E c \in PrintingCoroutines : WorkerStep(c)

SpecRace == InitRace /\ [][NextRace]_vars

\* The worker thread of coroutine c emits the degradation signal: it sets
\* is_healthy to False and goes on to log the error and count it.
SignalsDegradation(c) ==
    /\ worker[c].pc = "flip"
    /\ worker'[c].pc = "te_load"

\* C24: the degradation signal is emitted only by a call that turns a
\* healthy printer unhealthy, so once per transition and not again while the
\* printer is unhealthy.
C24_DegradationSignalledOnce ==
    [][\A c \in PrintingCoroutines :
          SignalsDegradation(c) =>
              /\ printer_status[worker[c].token].is_healthy
              /\ ~printer_status'[worker[c].token].is_healthy]_vars

----------------------------------------------------------------------------
(* process_printer_jobs: reports and order (Spec) *)

\* process_printer_jobs(p) resumes after its print returned.
FetchResumeStep(p) ==
    /\ fetch[p].pc = "printing"
    /\ task[p].state = "done"
    /\ fetch'[p] # fetch[p]

\* process_printer_jobs(p) resumes after update_job_status returned.
FetchReportedStep(p) ==
    /\ fetch[p].pc \in {"report_done", "report_error"}
    /\ fetch'[p] # fetch[p]

\* C25: when the print of a job of process_printer_jobs returns False the
\* task issues the 'error' report for that job, and when that report has
\* returned the job id is in the retry queue; when the print returns True
\* it issues the 'done' report, after which it goes on to the next job or
\* ends, without an 'error' report for that dispatch.
C25_FailureReportedAndQueued ==
    [][\A p \in Printers :
          /\ FetchResumeStep(p) =>
                /\ fetch'[p].job = fetch[p].job
                /\ fetch'[p].pc = IF task[p].result THEN "report_done"
                                  ELSE "report_error"
          /\ FetchReportedStep(p) /\ fetch[p].pc = "report_error" =>
                Has(failed_jobs', fetch[p].job)
          /\ FetchReportedStep(p) /\ fetch[p].pc = "report_done" =>
                fetch'[p].pc \in {"printing", "done"}]_vars

\* A job whose print failed has been reported and is in a queue that was
\* full when it was enqueued: another entry made room for it.
C25_Witness ==
    /\ Len(failed_jobs) = max_failed_jobs
    /\ \E j \in JobIds :
           /\ ~Has(failed_jobs, j)
           /\ job_history[j].failed > 0
    /\ \E p \in Printers : fetch[p].pc = "done"

----------------------------------------------------------------------------
(* The counters under concurrent increments (SpecRace) *)

\* The aggregate counters of self.stats.
Counters == DOMAIN NewStats

\* C26: no step lowers an aggregate counter, whichever way the worker
\* threads interleave the read and the write of their increments.
C26_CountersNeverDecrease ==
    [][\A k \in Counters : stats'[k] >= stats[k]]_vars

----------------------------------------------------------------------------
(* add_to_retry_queue for a queued job id (SpecQueue) *)

\* C27: add_to_retry_queue for a job id that is in the queue leaves the same
\* job ids in the queue, whether or not the queue is full, and the entry of
\* that job id with one attempt more and the same printer token.
C27_ReaddKeepsEntries ==
    AddedExisting =>
        /\ JobIdsIn(failed_jobs) = JobIdsIn(last_call.before)
        /\ Has(failed_jobs, last_call.job_id)
        /\ EntryOf(failed_jobs, last_call.job_id).attempts
               = EntryOf(last_call.before, last_call.job_id).attempts + 1
        /\ EntryOf(failed_jobs, last_call.job_id).printer_token
               = EntryOf(last_call.before, last_call.job_id).printer_token

----------------------------------------------------------------------------
(* One dispatch of print_job_sync (Spec) *)

\* The step is the return of the print call of coroutine c.
PrintReturnsStep(c) == Printing(c) /\ task'[c].state = "done"

\* The worker thread of coroutine c makes a step.
WorkerActs(c) == worker'[c] # worker[c]

\* The step of the worker thread of coroutine c belongs to one outcome of
\* its call: the thread reads the streak only when the last attempt has
\* failed, it stays in the branch of the outcome until the call returns,
\* and it leaves the streak of its printer as it was, one above the value it
\* read (failure) or at 0 (success).
AtMostOneOutcome(c) ==
    LET w == worker[c] IN
    /\ worker'[c].pc = "cf_store" /\ w.pc # "cf_store" => w.pc = "idle"
    /\ w.pc \in OkPcs => worker'[c].pc \in OkPcs \cup {"idle"}
    /\ w.pc \in FailPcs => worker'[c].pc \in FailPcs \cup {"idle"}
    /\ w.pc # "idle" =>
          \/ printer_status'[w.token].consecutive_failures
                = printer_status[w.token].consecutive_failures
          \/ /\ w.pc \in FailPcs
             /\ printer_status'[w.token].consecutive_failures = w.reg + 1
          \/ /\ w.pc \in OkPcs
             /\ printer_status'[w.token].consecutive_failures = 0

\* The step puts a job in the retry queue or re-schedules its entry.
QueuedStep ==
    \E job_id \in JobIds :
        /\ Has(failed_jobs', job_id)
        /\ ~Has(failed_jobs, job_id)
              \/ EntryOf(failed_jobs', job_id) # EntryOf(failed_jobs, job_id)

\* C28: one dispatch of print_job_sync makes at most 3 attempts, returns
\* True from the first attempt that succeeds and False only when all 3
\* attempts have failed, and applies at most one outcome to the health
\* record of its printer; a job enters the retry queue only after such a
\* failed dispatch.
C28_DispatchBoundedAndQueuedAfterFailure ==
    [][/\ \A c \in PrintingTasks :
             /\ PrintReturnsStep(c) =>
                   /\ task'[c].attempt \in 1..3
                   /\ ~task'[c].result => task'[c].attempt = 3
                   /\ task'[c].result <=> worker[c].pc \in OkPcs
             /\ WorkerActs(c) =>
                   /\ AtMostOneOutcome(c)
                   /\ \A q \in Printers \ {task[c].printer} :
                          printer_status'[q] = printer_status[q]
       /\ \A p \in Printers :
             fetch[p].pc # "report_error" /\ fetch'[p].pc = "report_error"
                => DispatchFailed(p)
       /\ QueuedStep =>
             \/ \E p \in Printers : fetch[p].pc = "report_error"
             \/ retry.pc = "printing" /\ DispatchFailed("retry")]_vars

\* A dispatch has returned True from its second attempt while a job whose
\* dispatch failed is in the retry queue.
C28_Witness ==
    /\ \E c \in PrintingTasks :
          task[c].state = "done" /\ task[c].kind = "print"
          /\ task[c].result /\ task[c].attempt = 2
    /\ failed_jobs # <<>>

----------------------------------------------------------------------------
(* The due list of process_retry_queue (SpecBackoff) *)

\* Most failed dispatches of a behaviour of SpecBackoff: two jobs fail, and
\* then each of them once more.
MaxBackoffFailed == 4

\* Most cycles of main_loop in a behaviour of SpecBackoff.
MaxBackoffCycles == 4

BudgetBackoff == [Budget EXCEPT !.jobs_failed = MaxBackoffFailed,
                                !.cycles = MaxBackoffCycles]

\* The job lists the job source returns, each in ascending order of job
\* id: nothing, two jobs around an item without id, the second of them
\* again, or a job and an item that is not a dict.
BatchesBackoff == {<<>>, <<1, NoJob, 2>>, <<2>>, <<1, NotADict>>}

\* The ways a print runs: it succeeds at once or fails at its last attempt.
RunsBackoff == {r \in PrintRuns : (r.last = "ok" /\ r.attempts = 1)
                                       \/ r.last = "fail"}

\* The dispatcher with one printer, while the job source may serve again a
\* job that waits in the retry queue.
NextBackoff ==
    \/ LoadConfig("ok", OnePrinter)
    \/ Run
    \/ LoopTest(FALSE, BudgetBackoff)
    \/ KeepAliveStart(FALSE, BudgetBackoff)
    \/ KeepAliveDone(FALSE, BudgetBackoff)
    \/ GatherJoin
    \/ Wake
    \/ Exit
    \/ Kill
    \/ \E t \in Instants : Tick(t)
    \/ \E success \in BOOLEAN : KeepAliveProbe(success, BudgetBackoff)
    \/ \E c \in PrintingCoroutines, run \in RunsBackoff : PrintJobSync(c, run, BudgetBackoff)
    \/ \E c \in PrintingCoroutines : WorkerStep(c)
    \/ \E p \in Printers : \E batch \in BatchesBackoff :
           FetchReturn(p, batch, FALSE, BudgetBackoff)
    \/ \E p \in Printers : FetchPrinted(p)
    \/ \E p \in Printers : FetchReported(p, FALSE, BudgetBackoff)
    \/ \E p \in Printers : FetchStart(p)
    \/ RetryStart
    \/ RetryPrinted
    \/ RetryReported(FALSE, BudgetBackoff)

SpecBackoff == InitDispatcher /\ [][NextBackoff]_vars

\* The step is the first run of the task of process_retry_queue, in which
\* it computes ready_jobs.
RetryStartStep == retry.pc = "created" /\ retry'.pc # "created"

\* The job ids of the entries process_retry_queue holds: the one it prints
\* and those left in ready_jobs.
HeldIds(r) ==
    {r.ready[i].job_id : i \in 1..Len(r.ready)}
        \cup (IF r.pc = "printing" THEN {r.cur.job_id} ELSE {})

\* The job ids of the entries of q that are due at time t.
DueIds(q, t) == {q[i].job_id : i \in {k \in 1..Len(q) : q[k].next_retry <= t}}

\* C29: process_retry_queue selects every entry that is due when it
\* computes its list and no other, and when it submits the print of an
\* entry that is still in the queue the next_retry of that entry is not
\* later than now.
C29_RetryOnlyWhenDue ==
    [][/\ RetryStartStep /\ ~kill_now =>
             HeldIds(retry') = DueIds(failed_jobs, now)
       /\ PrintSubmitted("retry") /\ retry'.cur.live =>
             EntryOf(failed_jobs', retry'.cur.job_id).next_retry <= now]_vars

----------------------------------------------------------------------------
(* The order of the dispatches of process_printer_jobs (SpecBackoff) *)

\* The jobs of the list `jobs` that have an id all have a larger id than
\* job_id: served in ascending order, they come after it in the list.
AllAfter(jobs, job_id) ==
    \A i \in 1..Len(jobs) : jobs[i] \in {NoJob, NotADict} \/ jobs[i] > job_id

\* C30: process_printer_jobs dispatches the jobs of the list in the order
\* of the list: it submits a print when the list has just arrived or when
\* the status report of the job before has returned, with no print of its
\* own in the pool, and the job it submits is the first one with an id
\* among those not visited yet.
C30_DispatchInOrderOneAtATime ==
    [][\A p \in Printers :
          PrintSubmitted(p) =>
             /\ fetch[p].pc \in {"fetching", "report_done", "report_error"}
             /\ task[p].state = "idle"
             /\ fetch[p].pc # "fetching" =>
                   /\ fetch'[p].job = Head(SkipNoId(fetch[p].jobs))
                   /\ fetch'[p].jobs = Tail(SkipNoId(fetch[p].jobs))
             /\ task'[p].job = fetch'[p].job
             /\ AllAfter(fetch'[p].jobs, fetch'[p].job)]_vars

\* The print of job 2 runs after job 1, before it in the same list, has
\* failed and has been reported and queued.
C30_Witness ==
    /\ Printing("p1")
    /\ fetch["p1"].job = 2
    /\ Has(failed_jobs, 1)
    /\ stats.jobs_failed = 1
    /\ stats.jobs_processed = 0

----------------------------------------------------------------------------
(* The cycle counters of main_loop (SpecCadence) *)

\* Most loop iterations of a behaviour of SpecCadence.
MaxIterations == 200

BudgetCadence == [Budget EXCEPT !.jobs_processed = 0,
                                !.jobs_failed = 0,
                                !.cycles = MaxIterations]

\* The instants at which the clock is read during SpecCadence: an iteration
\* may take no time or a long time.
InstantsCadence == {1, FirstDelay}

\* One printer; the job source has no job and the periodic calls return.
NextCadence ==
    \/ LoadConfig("ok", OnePrinter)
    \/ Run
    \/ LoopTest(FALSE, BudgetCadence)
    \/ KeepAliveStart(FALSE, BudgetCadence)
    \/ KeepAliveDone(FALSE, BudgetCadence)
    \/ GatherJoin
    \/ Wake
    \/ Exit
    \/ Kill
    \/ \E t \in InstantsCadence : Tick(t)
    \/ \E success \in BOOLEAN : KeepAliveProbe(success, BudgetCadence)
    \/ \E p \in Printers : FetchReturn(p, <<>>, FALSE, BudgetCadence)
    \/ \E p \in Printers : FetchStart(p)
    \/ RetryStart

SpecCadence == InitDispatcher /\ [][NextCadence]_vars

\* C31: the state export is called in the loop iterations whose number is a
\* multiple of 10 and in no other, the heartbeat in the multiples of 20 and
\* the status summary in the multiples of 100, whatever the clock shows.
C31_PeriodicCallsByIterationCount ==
    cadence.iteration > 0 =>
        /\ "export" \in cadence.called <=> cadence.iteration % 10 = 0
        /\ "heartbeat" \in cadence.called <=> cadence.iteration % 20 = 0
        /\ "summary" \in cadence.called <=> cadence.iteration % 100 = 0

\* The 200th iteration, a long time after the start, makes the three calls
\* for the second time together.
C31_Witness ==
    /\ cadence.iteration = 200
    /\ cadence.called = {"export", "heartbeat", "summary"}
    /\ now = FirstDelay

----------------------------------------------------------------------------
(* Concurrent outcomes for one printer (SpecRace) *)

\* No worker thread is inside the end of print_job_sync.
WorkersIdle == \A c \in PrintingCoroutines : worker[c].pc = "idle"

\* C32: once the worker threads that recorded outcomes for a printer at the
\* same time have completed, the printer is unhealthy if and only if its
\* streak of consecutive failures is 3 or more.
C32_HealthyIffShortStreakAfterRace ==
    WorkersIdle =>
        \A p \in Printers :
            ~printer_status[p].is_healthy
                <=> printer_status[p].consecutive_failures >= 3

----------------------------------------------------------------------------
(* The attempt count of a queued entry (SpecCeiling) *)

\* C33: no entry of the retry queue has an attempt count above the give-up
\* ceiling of 5, also when the job source serves again a job that waits in
\* the queue and that dispatch fails.
C33_AttemptsAtMostCeiling ==
    \A i \in 1..Len(failed_jobs) : failed_jobs[i].attempts <= 5

----------------------------------------------------------------------------
(* The deletions of process_retry_queue (SpecBackoff) *)

\* C34: process_retry_queue never ends with the KeyError of a
\* `del self.failed_jobs[...]` for a job id that has left the queue, whatever
\* process_printer_jobs did to the queue while the retry print or its
\* status report was in flight.
C34_RetryDeletesPresentEntries == retry.pc # "raised"

----------------------------------------------------------------------------
(* Entries removed during a pass of process_retry_queue (SpecBackoff) *)

\* The step is the return of a failed retry print of an entry that has left
\* the queue.
RemovedRetryFailsStep ==
    /\ retry.pc = "printing"
    /\ task["retry"].state = "done"
    /\ ~task["retry"].result
    /\ ~retry.cur.live
    /\ retry' # retry

\* C35: process_retry_queue submits no print for an entry that has left the
\* queue since the due list was computed, and after a failed retry of an
\* entry that has left the queue it puts no entry for that job back.
C35_RemovedEntriesNotRetried ==
    [][/\ PrintSubmitted("retry") => retry'.cur.live
       /\ RemovedRetryFailsStep =>
             (Has(failed_jobs', retry.cur.job_id)
                 => Has(failed_jobs, retry.cur.job_id))]_vars

----------------------------------------------------------------------------
(* A printer whose keep-alive probe failed (SpecFleet) *)

\* The timestamps of printer p that the keep-alive test reads are the same
\* after the step.
NoActivityRecorded(p) ==
    /\ printer_status'[p].last_keep_alive = printer_status[p].last_keep_alive
    /\ printer_status'[p].last_job_printed = printer_status[p].last_job_printed

\* C36: the step that applies a failed probe leaves last_keep_alive of the
\* printer as it was, and the printer due; a printer that is due stays due
\* while no successful probe and no successful print is recorded for it;
\* and a keep-alive check passes over no printer that is due at its time,
\* so that the printer is probed again by every later check.
C36_FailedProbeKeepsPrinterDue ==
    [][/\ ProbeFailedStep =>
             LET p == task["main"].printer IN
             /\ printer_status'[p].last_keep_alive = printer_status[p].last_keep_alive
             /\ KeepAliveDue(printer_status'[p], now')
       /\ \A p \in Printers :
             KeepAliveDue(printer_status[p], now) /\ NoActivityRecorded(p)
                => KeepAliveDue(printer_status'[p], now')
       /\ CheckStep =>
             \A i \in 1..(Len(CheckTodo) - Len(CheckLeft)) :
                 KeepAliveDue(printer_status'[CheckTodo[i]], CheckTime)
                     => ProbeIssued(CheckTodo[i])]_vars

\* Printer p1, whose probe failed at the first check, is probed again at
\* the second one: nothing else has failed on it and it has printed
\* nothing.
C36_Witness ==
    /\ Probing("p1")
    /\ now = FleetSecondCheck
    /\ printer_status["p1"].consecutive_failures = 1
    /\ printer_status["p1"].last_keep_alive = 0
    /\ printer_status["p1"].last_job_printed = 0
    /\ stats.keep_alives_failed = 1
    /\ stats.jobs_failed = 0

----------------------------------------------------------------------------
(* Dispatch to a printer marked unhealthy (Spec) *)

Unhealthy(p) == ~printer_status[p].is_healthy

\* The worker thread of coroutine c, inside update_printer_status(p, True),
\* makes the write it is at: `status.consecutive_failures = 0` or
\* `status.is_healthy = True`.
SuccessWriteStep(c, p, pc) ==
    /\ worker[c].token = p
    /\ worker[c].pc = pc
    /\ WorkerActs(c)

\* The loop thread applies the successful probe of printer p.
ProbeSuccessAppliedStep(p) ==
    /\ main.pc = "ka_wait"
    /\ task["main"].state = "done"
    /\ task["main"].result
    /\ task["main"].printer = p
    /\ task'["main"] # task["main"]

\* The first entry of q that is due at time t.
FirstDue(q, t) == q[CHOOSE i \in 1..Len(q) :
                       /\ q[i].next_retry <= t
                       /\ \A k \in 1..(i - 1) : ~(q[k].next_retry <= t)]

\* C37: is_healthy gates nothing.  While a printer is marked unhealthy,
\* process_printer_jobs submits the print of its next job, process_retry_queue
\* submits the retry of its due entry, a keep-alive check probes it when it
\* has been idle for more than its interval, and a success recorded for it
\* makes it healthy again with an empty streak: a print that succeeded
\* writes the streak 0 and then the flag True without reading the flag, and
\* a successful probe, applied on the loop thread while no print runs,
\* leaves the printer healthy with streak 0.  (What a failure recorded at
\* the same time by another worker thread writes after that is the subject
\* of C32.)
C37_UnhealthyPrinterStillServed ==
    [][\A p \in Printers :
          Unhealthy(p) =>
             /\ FetchReportedStep(p) /\ ~kill_now /\ SkipNoId(fetch[p].jobs) # <<>>
                   => PrintSubmitted(p) /\ task'[p].printer = p
             /\ RetryStartStep /\ ~kill_now /\ DueIds(failed_jobs, now) # {}
                   /\ FirstDue(failed_jobs, now).printer_token = p
                   => PrintSubmitted("retry") /\ task'["retry"].printer = p
             /\ CheckStep =>
                   \A i \in 1..(Len(CheckTodo) - Len(CheckLeft)) :
                       CheckTodo[i] = p
                       /\ IdleSince(p, CheckTime) > printer_keep_alive_interval
                          => ProbeIssued(p)
             /\ \A c \in PrintingCoroutines :
                   /\ SuccessWriteStep(c, p, "ok_cf")
                         => /\ printer_status'[p].consecutive_failures = 0
                            /\ worker'[c].pc = "ok_healthy"
                   /\ SuccessWriteStep(c, p, "ok_healthy")
                         => printer_status'[p].is_healthy
             /\ ProbeSuccessAppliedStep(p) =>
                   /\ printer_status'[p].is_healthy
                   /\ printer_status'[p].consecutive_failures = 0]_vars

\* The printer is unhealthy after four failures in a row, three prints and
\* a probe, and the worker thread of a retry that printed on it is about to
\* write the flag, while the printer's job list is being fetched.
C37_Witness ==
    /\ "p1" \in Printers
    /\ Unhealthy("p1")
    /\ stats.jobs_failed = 3
    /\ stats.keep_alives_failed = 1
    /\ task["retry"].state = "running"
    /\ task["retry"].kind = "print"
    /\ task["retry"].printer = "p1"
    /\ worker["retry"].pc = "ok_healthy"
    /\ fetch["p1"].pc = "fetching"

----------------------------------------------------------------------------
(* Jobs without an id (SpecBackoff) *)

\* The position in `jobs` of the first job that has an id.
FirstWithId(jobs) ==
    CHOOSE i \in 1..Len(jobs) :
        jobs[i] # NoJob /\ \A k \in 1..(i - 1) : jobs[k] = NoJob

\* C38: a job without an id is never the job of a print call, of a status
\* report or of a retry entry, and it does not end the loop: when the
\* report of a job has returned and a job with an id is left in the list,
\* behind jobs without one or not, the print of that job is submitted (an
\* item that is not a dict is no job: the task raises when it reaches it).
C38_JobsWithoutIdSkipped ==
    [][/\ \A c \in PrintingTasks :
             task'[c].kind = "print" => task'[c].job # NoJob
       /\ \A p \in Printers :
             /\ fetch'[p].pc \in {"printing", "report_done", "report_error"}
                   => fetch'[p].job # NoJob
             /\ FetchReportedStep(p) /\ ~kill_now
                /\ (\E i \in 1..Len(fetch[p].jobs) : fetch[p].jobs[i] # NoJob)
                /\ fetch[p].jobs[FirstWithId(fetch[p].jobs)] # NotADict
                   => /\ PrintSubmitted(p)
                      /\ task'[p].job = fetch[p].jobs[FirstWithId(fetch[p].jobs)]
       /\ ~Has(failed_jobs', NoJob)]_vars

\* Job 1 has printed and has been reported, the item without an id behind
\* it has left no trace, and the print of job 2, the last of the list, runs.
C38_Witness ==
    /\ Printing("p1")
    /\ fetch["p1"].job = 2
    /\ fetch["p1"].jobs = <<>>
    /\ stats.jobs_processed = 1
    /\ stats.jobs_failed = 0
    /\ failed_jobs = <<>>

----------------------------------------------------------------------------
(* Keep-alive probes after the shutdown signal (SpecFleet) *)

\* C39: in a step taken with the shutdown signal set no keep-alive probe is
\* submitted to the pool: a pass of perform_keep_alive that is in progress
\* does not go on to its next due printer.
C39_NoProbeSubmittedAfterSignal ==
    [][kill_now => \A p \in Printers : ~ProbeIssued(p)]_vars

----------------------------------------------------------------------------
(* Entries of a printer that is not configured (SpecUnconfigured) *)

\* The client with one printer, whose queue is filled before run() through
\* add_to_retry_queue, for its printer and for a token that is not a key
\* of self.printers; the job source has no job.  The dispatcher itself
\* queues only tokens of self.printers, so it is only here that
\* process_retry_queue meets an entry it deletes and skips.
NextUnconfigured ==
    \/ LoadConfig("ok", OnePrinter)
    \/ \E job_id \in JobIds, token \in Printers \cup {UnknownToken} :
           QueueAdd(job_id, token)
    \/ Run
    \/ LoopTest(FALSE, Budget)
    \/ KeepAliveStart(FALSE, Budget)
    \/ KeepAliveDone(FALSE, Budget)
    \/ GatherJoin
    \/ Wake
    \/ Exit
    \/ Kill
    \/ \E t \in Instants : Tick(t)
    \/ \E success \in BOOLEAN : KeepAliveProbe(success, Budget)
    \/ \E run \in RunsBackoff : PrintJobSync("retry", run, Budget)
    \/ WorkerStep("retry")
    \/ \E p \in Printers : FetchReturn(p, <<>>, FALSE, Budget)
    \/ \E p \in Printers : FetchStart(p)
    \/ RetryStart
    \/ RetryPrinted
    \/ RetryReported(FALSE, Budget)

SpecUnconfigured == InitQueue /\ [][NextUnconfigured]_vars

============================================================================
